---- MODULE Spec2Model ----
(***************************************************************************)
(* Conflict index of the netlist configuration editor.                     *)
(*                                                                         *)
(* ConflictStore (src/src/core/conflict_store.py) keeps two dictionaries,  *)
(* _line_nets (line id -> frozenset of canonical net names) and            *)
(* _net_lines (canonical net name -> set of line ids).  ConflictDetector   *)
(* resolves the net references of a document line through the netlist     *)
(* query service and keeps the store up to date.                           *)
(*                                                                         *)
(* A Python dict is a TLA+ function whose DOMAIN is the set of keys.       *)
(* A net name is the sequence of its '/'-separated components, so the      *)
(* name "i1/p" is <<"i1", "p">>.                                           *)
(***************************************************************************)
EXTENDS Integers, Sequences, FiniteSets, TLC

VARIABLES line_nets, net_lines, doc, last, before, build, nqs,
          bus, parse, db, document, session, cache, pure, ctor, service

vars == <<line_nets, net_lines, doc, last, before, build, nqs,
         bus, parse, db, document, session, cache, pure, ctor, service>>

(***************************************************************************)
(* Bounds                                                                  *)
(***************************************************************************)
MaxLines == 3

Lines == 1..MaxLines

\* Python's None, where a record is expected
None == [kind |-> "None"]

\* the empty dict
EmptyDict == <<>>

(***************************************************************************)
(* Dict helpers                                                            *)
(***************************************************************************)
\* dict.get(k) of a dict of sets, with None and the empty set both read as
\* the empty set: every caller only tests the result for truthiness
DictGet(d, k) == IF k \in DOMAIN d THEN d[k] ELSE {}

\* d[k] = v
DictSet(d, k, v) == [x \in (DOMAIN d) \cup {k} |-> IF x = k THEN v ELSE d[x]]

\* d.pop(k, None)
DictPop(d, k) == [x \in (DOMAIN d) \ {k} |-> d[x]]

\* Python truthiness of an Optional set: None and the empty set are falsy
Truthy(s) == s # {}

(***************************************************************************)
(* ConflictStore                                                           *)
(***************************************************************************)
\* the store as a value: ln is _line_nets, nl is _net_lines, and raised
\* tells whether the call that produced it ended in an exception
EmptyStore == [ln |-> EmptyDict, nl |-> EmptyDict, raised |-> FALSE]

\* a _remove_line_from_index that leaves the reverse index as it is
RemoveLineFromIndexSkip(s, line_id) == [s EXCEPT !.raised = FALSE]

\* _remove_line_from_index: every net of the line loses the line as owner,
\* and a net left without owners is deleted from _net_lines.  The loop
\* visits each net of old_nets once and touches only that net's entry;
\* "del _net_lines[net]" raises KeyError for a key that is not there.
RemoveLineFromIndex(s, line_id) ==
  LET old_nets == DictGet(s.ln, line_id)
  IN IF ~Truthy(old_nets) THEN [s EXCEPT !.raised = FALSE]
     ELSE LET touched == {n \in old_nets : Truthy(DictGet(s.nl, n))}
              deleted == {n \in touched : s.nl[n] \ {line_id} = {}}
          IN [ln |-> s.ln,
              nl |-> [n \in (DOMAIN s.nl) \ deleted |->
                        IF n \in touched THEN s.nl[n] \ {line_id}
                        ELSE s.nl[n]],
              raised |-> \E n \in deleted : n \notin DOMAIN s.nl]

\* an update loop that assigns "_net_lines[net] = {line}" instead of adding
AddOwnerOverwrite(nl, nets, line_id) ==
  [n \in (DOMAIN nl) \cup nets |-> IF n \in nets THEN {line_id} ELSE nl[n]]

\* the loop "for net in new_nets: _net_lines.setdefault(net, set()).add(line)"
AddOwner(nl, nets, line_id) ==
  [n \in (DOMAIN nl) \cup nets |->
     IF n \in nets
     THEN (IF n \in DOMAIN nl THEN nl[n] ELSE {}) \cup {line_id}
     ELSE nl[n]]

\* ConflictStore.update_line
StoreUpdateLine(s, line_id, nets) ==
  LET r == RemoveLineFromIndex(s, line_id)
  IN IF r.raised THEN r
     ELSE IF nets = {}
     THEN [ln |-> DictPop(r.ln, line_id), nl |-> r.nl, raised |-> FALSE]
     ELSE [ln |-> DictSet(r.ln, line_id, nets),
           nl |-> AddOwner(r.nl, nets, line_id),
           raised |-> FALSE]

\* the reverse index that build_from_lines derives from the kept entries
BuildNetLines(ln) ==
  [n \in UNION {ln[l] : l \in DOMAIN ln} |-> {l \in DOMAIN ln : n \in ln[l]}]

\* a build_from_lines without the "if nets" filter
StoreBuildFromLinesKeepEmpty(m) ==
  [ln |-> m, nl |-> BuildNetLines(m), raised |-> FALSE]

\* ConflictStore.build_from_lines: entries with an empty net set are dropped
StoreBuildFromLines(m) ==
  LET kept == [l \in {x \in DOMAIN m : m[x] # {}} |-> m[l]]
  IN [ln |-> kept, nl |-> BuildNetLines(kept), raised |-> FALSE]

\* a remove_line that pops the line and leaves _net_lines alone
StoreRemoveLineForwardOnly(s, line_id) ==
  [ln |-> DictPop(s.ln, line_id), nl |-> s.nl, raised |-> FALSE]

\* ConflictStore.remove_line; pop(line_id, None) accepts a missing key
StoreRemoveLine(s, line_id) ==
  LET r == RemoveLineFromIndex(s, line_id)
  IN IF r.raised THEN r
     ELSE [ln |-> DictPop(r.ln, line_id), nl |-> r.nl, raised |-> FALSE]

\* ConflictStore.clear
StoreClear == [ln |-> EmptyDict, nl |-> EmptyDict, raised |-> FALSE]

\* an is_conflicting that accepts a net with a single owner
IsConflictingAnyOwner(s, line_id) ==
  LET nets == DictGet(s.ln, line_id)
  IN IF ~Truthy(nets) THEN FALSE
     ELSE \E n \in nets :
            LET owners == DictGet(s.nl, n)
            IN Truthy(owners) /\ Cardinality(owners) >= 1

\* ConflictStore.is_conflicting
IsConflicting(s, line_id) ==
  LET nets == DictGet(s.ln, line_id)
  IN IF ~Truthy(nets) THEN FALSE
     ELSE \E n \in nets :
            LET owners == DictGet(s.nl, n)
            IN Truthy(owners) /\ Cardinality(owners) > 1

\* a get_conflicting_lines without the final discard(line_id)
GetConflictingLinesWithSelf(s, line_id) ==
  LET nets == DictGet(s.ln, line_id)
  IN IF ~Truthy(nets) THEN {}
     ELSE UNION {s.nl[n] : n \in {x \in nets : Truthy(DictGet(s.nl, x))}}

\* ConflictStore.get_conflicting_lines
GetConflictingLines(s, line_id) ==
  LET nets == DictGet(s.ln, line_id)
  IN IF ~Truthy(nets) THEN {}
     ELSE UNION {s.nl[n] : n \in {x \in nets : Truthy(DictGet(s.nl, x))}}
            \ {line_id}

\* a get_conflicting_net_ids that answers all nets of a conflicting line
GetConflictingNetIdsAll(s, line_id) ==
  LET nets == DictGet(s.ln, line_id)
  IN IF ~Truthy(nets) THEN {}
     ELSE IF \E n \in nets : Cardinality(DictGet(s.nl, n)) > 1 THEN nets
     ELSE {}

\* ConflictStore.get_conflicting_net_ids
GetConflictingNetIds(s, line_id) ==
  LET nets == DictGet(s.ln, line_id)
  IN IF ~Truthy(nets) THEN {}
     ELSE {n \in nets : LET owners == DictGet(s.nl, n)
                        IN Truthy(owners) /\ Cardinality(owners) > 1}

\* ConflictStore.get_conflict_info: None, or a ConflictInfo
GetConflictInfo(s, line_id) ==
  LET net_ids == GetConflictingNetIds(s, line_id)
  IN IF net_ids = {} THEN None
     ELSE [kind |-> "ConflictInfo",
           conflicting_line_ids |-> GetConflictingLines(s, line_id),
           shared_net_ids |-> net_ids]

(***************************************************************************)
(* The netlist the query service was built on.  It is immutable once       *)
(* parsed; this is the parsed form of                                      *)
(*     .SUBCKT blk p q                                                     *)
(*     .ENDS                                                               *)
(*     .SUBCKT top a b                                                     *)
(*     Xi1 a w blk                                                         *)
(*     Xi2 b w blk                                                         *)
(*     .ENDS                                                               *)
(* with top as the top cell: i1/p is a, i2/p is b and both q pins are the  *)
(* internal net w of top.                                                  *)
(***************************************************************************)
TopCellName == "top"

\* Netlist._template_name_map: per template its interface nets in port
\* order, its _net_name_map keys and its sub instances
TemplateNameMap ==
  [top |-> [interface_nets |-> <<"a", "b">>,
            nets |-> {"a", "b", "w"},
            sub_instances |->
              {[name |-> "i1", template |-> "blk", connected |-> <<"a", "w">>],
               [name |-> "i2", template |-> "blk", connected |-> <<"b", "w">>]}],
   blk |-> [interface_nets |-> <<"p", "q">>,
            nets |-> {"p", "q"},
            sub_instances |-> {}]]

AllTemplates == DOMAIN TemplateNameMap

\* None where a net name is expected; the empty string is written the same
\* way, the code only ever tests such a value for truthiness
NoName == <<>>

\* None where a template name is expected, also the empty string
NoTemplate == ""

\* str.lower() on the names that are drawn as inputs
Lower(str) ==
  CASE str = "BLK" -> "blk"
    [] str = "TOP" -> "top"
    [] str = "B" -> "b"
    [] OTHER -> str

\* str.lower() on a hierarchical net name
LowerNet(name) == [i \in DOMAIN name |-> Lower(name[i])]

\* the pattern that matches every name
MatchAll == ".*"

\* the REGEXP function registered with the index: re.search(expr, item,
\* re.IGNORECASE), for the one pattern that is drawn as an input
Regexp(expr, item) == expr = MatchAll

\* NetlistNet.is_interface for net name n of template t
IsInterface(t, n) ==
  \E i \in DOMAIN TemplateNameMap[t].interface_nets :
     TemplateNameMap[t].interface_nets[i] = n

\* NetlistInstance.get_connected_net: the parent net at the port's position
GetConnectedNet(instance, interface_net) ==
  LET ports == TemplateNameMap[instance.template].interface_nets
  IN instance.connected[CHOOSE i \in DOMAIN ports : ports[i] = interface_net]

\* NetlistTemplate.get_self_instances, each with its parent template
GetSelfInstances(t) ==
  UNION {{[parent |-> pt, instance |-> inst] :
            inst \in {i \in TemplateNameMap[pt].sub_instances : i.template = t}} :
         pt \in AllTemplates}

NotFound == [found |-> FALSE]

\* get_net_with_path / get_net_step: walk the instance names of a
\* hierarchical net name down from template t
RECURSIVE GetNetWithPath(_, _, _)
GetNetWithPath(t, net_name, current_path) ==
  IF Len(net_name) = 1
  THEN IF net_name[1] \in TemplateNameMap[t].nets
       THEN [found |-> TRUE, template |-> t, net |-> net_name[1],
             path |-> current_path]
       ELSE NotFound
  ELSE LET subs == {i \in TemplateNameMap[t].sub_instances : i.name = net_name[1]}
       IN IF subs = {} THEN NotFound
          ELSE LET sub == CHOOSE i \in subs : TRUE
               IN GetNetWithPath(sub.template, Tail(net_name),
                                 Append(current_path, sub.name))

\* get_instance_by_path: the deepest instance of an instance path from root,
\* with the template it is placed in
RECURSIVE GetInstanceByPath(_, _)
GetInstanceByPath(root, instance_path) ==
  LET inst == CHOOSE i \in TemplateNameMap[root].sub_instances :
                 i.name = instance_path[1]
  IN IF Len(instance_path) = 1 THEN inst
     ELSE GetInstanceByPath(inst.template, Tail(instance_path))

\* trace_interface_to_top
RECURSIVE TraceInterfaceToTop(_, _, _, _)
TraceInterfaceToTop(root, t, current_net, path_from_root) ==
  IF path_from_root = <<>> THEN <<current_net>>
  ELSE IF IsInterface(t, current_net)
  THEN LET instance == GetInstanceByPath(root, path_from_root)
           shorter == SubSeq(path_from_root, 1, Len(path_from_root) - 1)
           parent == IF shorter = <<>> THEN root
                     ELSE GetInstanceByPath(root, shorter).template
       IN TraceInterfaceToTop(root, parent,
                              GetConnectedNet(instance, current_net), shorter)
  ELSE Append(path_from_root, current_net)

\* Netlist.get_canonical_net_name: the canonical hierarchical name, or None
NetlistGetCanonicalNetName(net_name, template_name) ==
  LET r == GetNetWithPath(template_name, net_name, <<>>)
  IN IF ~r.found THEN NoName
     ELSE IF IsInterface(r.template, r.net)
     THEN IF r.path # <<>>
          THEN TraceInterfaceToTop(template_name, r.template, r.net, r.path)
          ELSE <<r.net>>
     ELSE Append(r.path, r.net)

\* Netlist.get_template_instance_names: the instance paths of template t
\* from the top cell (the empty path for the top cell itself)
RECURSIVE InstanceStep(_, _)
InstanceStep(current_name, current_template) ==
  IF current_template = TopCellName THEN {current_name}
  ELSE UNION {InstanceStep(<<si.instance.name>> \o current_name, si.parent) :
                si \in GetSelfInstances(current_template)}

GetTemplateInstanceNames(t) == InstanceStep(<<>>, t)

\* Netlist._get_interface_net_instance_net_names
RECURSIVE InterfaceNetInstanceStep(_, _)
InterfaceNetInstanceStep(t, net) ==
  IF t = TopCellName THEN {<<net>>}
  ELSE UNION {
         LET connected == GetConnectedNet(si.instance, net)
         IN IF IsInterface(si.parent, connected)
            THEN InterfaceNetInstanceStep(si.parent, connected)
            ELSE {Append(ip, connected) : ip \in GetTemplateInstanceNames(si.parent)}
         : si \in GetSelfInstances(t)}

\* Netlist.get_net: the net a canonical name denotes; an interface net
\* reached through sub-hierarchies is not a canonical name
NetlistGetNet(canonical_net_name, template_name) ==
  LET r == GetNetWithPath(template_name, canonical_net_name, <<>>)
  IN IF r.found /\ IsInterface(r.template, r.net) /\ Len(canonical_net_name) > 1
     THEN NotFound ELSE r

\* Netlist.get_net_instance_names
GetNetInstanceNames(template_name, canonical_net_name) ==
  LET template_net == NetlistGetNet(canonical_net_name, template_name)
  IN IF ~template_net.found THEN {}
     ELSE IF IsInterface(template_net.template, template_net.net)
     THEN InterfaceNetInstanceStep(template_name, template_net.net)
     ELSE {ip \o canonical_net_name : ip \in GetTemplateInstanceNames(template_name)}

\* Netlist.get_all_nets: the canonical names of the interface nets and of
\* every non-interface net of the template and of its sub instances
RECURSIVE NetFindStep(_, _)
NetFindStep(current_instance_name, current_template) ==
  {Append(current_instance_name, n) :
     n \in {x \in TemplateNameMap[current_template].nets :
              ~IsInterface(current_template, x)}}
  \cup
  UNION {NetFindStep(Append(current_instance_name, inst.name), inst.template) :
           inst \in TemplateNameMap[current_template].sub_instances}

GetAllNets(t) ==
  LET ports == TemplateNameMap[t].interface_nets
      all_nets == {<<ports[i]>> : i \in DOMAIN ports} \cup NetFindStep(<<>>, t)
  IN {NetlistGetCanonicalNetName(n, t) : n \in all_nets} \ {NoName}

(***************************************************************************)
(* NetlistQueryService, the part ConflictDetector calls                    *)
(***************************************************************************)
\* _build_canonical_net_map, the rows of the nets table
AllNetsInTemplates == [t \in AllTemplates |-> GetAllNets(t)]

\* _normalize_template_name
NormalizeTemplateName(template_name) ==
  IF template_name = NoTemplate THEN TopCellName
  ELSE IF Lower(template_name) \in AllTemplates THEN Lower(template_name)
  ELSE NoTemplate

\* _resolve_canonical_net_name
ResolveCanonicalNetName(template_name, net_name) ==
  IF net_name = NoName THEN NoName
  ELSE NetlistGetCanonicalNetName(net_name, template_name)

\* get_canonical_net_name
GetCanonicalNetName(net_name, template_name) ==
  LET normalized == NormalizeTemplateName(template_name)
  IN IF normalized = NoTemplate THEN NoName
     ELSE ResolveCanonicalNetName(normalized, LowerNet(net_name))

\* _get_matching_templates
MatchingTemplates(template_name, template_regex) ==
  IF ~template_regex THEN {t \in AllTemplates : t = template_name}
  ELSE {t \in AllTemplates : Regexp(template_name, t)}

\* get_matching_templates
GetMatchingTemplates(template_pattern, is_regex) ==
  IF template_pattern = NoTemplate THEN {}
  ELSE MatchingTemplates(
         IF is_regex THEN template_pattern ELSE Lower(template_pattern), is_regex)

\* find_net_instance_names
FindNetInstanceNames(template, net_name) ==
  LET normalized == NormalizeTemplateName(template)
  IN IF normalized = NoTemplate THEN {}
     ELSE LET canonical_name == ResolveCanonicalNetName(normalized, LowerNet(net_name))
          IN IF canonical_name = NoName THEN {}
             ELSE GetNetInstanceNames(normalized, canonical_name)

\* _format_single_net_result: "net" for the top cell, "template:net" otherwise
FormatSingleNetResult(template_name, net_name) ==
  [prefix |-> IF template_name = TopCellName THEN NoTemplate ELSE template_name,
   net |-> net_name]

\* has_bus_notation: none of the net names drawn holds a bracketed range
HasBusNotation(net_name) == FALSE

\* _match_nets_regex; the pattern is the single component of net_name
MatchNetsRegex(templates, net_name) ==
  UNION {{FormatSingleNetResult(t, n) :
            n \in {x \in AllNetsInTemplates[t] : Regexp(net_name[1], x)}} :
         t \in templates}

\* _match_nets_exact
MatchNetsExact(templates, net_name) ==
  UNION {{FormatSingleNetResult(t, n) :
            n \in {x \in AllNetsInTemplates[t] : x = net_name}} :
         t \in templates}

\* _get_matching_alias_nets
GetMatchingAliasNets(templates, net_name) ==
  UNION {LET canonical_name == ResolveCanonicalNetName(t, net_name)
         IN IF canonical_name = NoName THEN {}
            ELSE {FormatSingleNetResult(t, canonical_name)} :
         t \in templates}

\* find_matches, its first component (the matching nets)
FindMatches(template_name, net_name, template_regex, net_regex) ==
  IF net_name = NoName THEN {}
  ELSE LET tpl == IF template_name = NoTemplate THEN TopCellName ELSE template_name
           tpl_n == IF template_regex THEN tpl ELSE Lower(tpl)
           net_n == IF net_regex THEN net_name ELSE LowerNet(net_name)
           matching_templates == MatchingTemplates(tpl_n, template_regex)
       IN IF matching_templates = {} THEN {}
          ELSE IF net_regex THEN MatchNetsRegex(matching_templates, net_n)
          ELSE MatchNetsExact(matching_templates, net_n)
                 \cup GetMatchingAliasNets(matching_templates, net_n)

(***************************************************************************)
(* Line data: AfLineData, MutexLineData, or None for a comment or blank    *)
(* line                                                                    *)
(***************************************************************************)
NetSpec(template, net, is_template_regex, is_net_regex) ==
  [template |-> template, net |-> net,
   is_template_regex |-> is_template_regex, is_net_regex |-> is_net_regex]

AfLineData(template, net, is_template_regex, is_net_regex) ==
  [kind |-> "AfLineData", template |-> template, net |-> net,
   is_template_regex |-> is_template_regex, is_net_regex |-> is_net_regex]

MutexLineData(template, mutexed_nets, is_net_regex) ==
  [kind |-> "MutexLineData", template |-> template,
   mutexed_nets |-> mutexed_nets, is_net_regex |-> is_net_regex]

\* AfLineData.net_specs and MutexLineData.net_specs, as the set of the
\* specs of the returned list
NetSpecs(data) ==
  IF data.kind = "AfLineData"
  THEN {NetSpec(data.template, data.net, data.is_template_regex, data.is_net_regex)}
  ELSE {NetSpec(data.template, data.mutexed_nets[i], FALSE, data.is_net_regex) :
          i \in DOMAIN data.mutexed_nets}

\* the line data that edits and loads draw from
DataSet ==
  {AfLineData("BLK", <<"q">>, FALSE, FALSE),
   MutexLineData(NoTemplate, <<(<<"B">>), (<<"i1", "p">>)>>, FALSE),
   AfLineData(NoTemplate, <<MatchAll>>, FALSE, TRUE),
   AfLineData("top", <<"zz">>, FALSE, FALSE)}

(***************************************************************************)
(* ConflictDetector                                                        *)
(***************************************************************************)
\* _resolve_tpl_net_to_top_names
ResolveTplNetToTopNames(tpl, net) == FindNetInstanceNames(tpl, net)

\* resolve_to_canonical_names
ResolveToCanonicalNames(template, net_name, template_regex, net_regex) ==
  IF net_name = NoName THEN {}
  ELSE LET tpl == IF template = NoTemplate THEN TopCellName ELSE template
           tpl_name == IF template_regex THEN tpl ELSE Lower(tpl)
           net_norm == IF net_regex THEN net_name ELSE LowerNet(net_name)
           matching_templates == GetMatchingTemplates(tpl_name, template_regex)
       IN IF matching_templates = {} THEN {}
          ELSE IF ~net_regex /\ ~HasBusNotation(net_norm)
          THEN UNION {LET canonical == GetCanonicalNetName(net_norm, t)
                      IN IF canonical = NoName THEN {}
                         ELSE ResolveTplNetToTopNames(t, canonical) :
                      t \in matching_templates}
          ELSE UNION {ResolveTplNetToTopNames(
                        IF q.prefix # NoTemplate THEN q.prefix ELSE TopCellName,
                        q.net) :
                      q \in FindMatches(tpl_name, net_norm, template_regex, net_regex)}

\* the lru_cache of resolve_to_canonical_names, filled: the netlist never
\* changes, so a cached answer is the answer a fresh call computes
ResolveCache ==
  [spec \in UNION {NetSpecs(d) : d \in DataSet} |->
     ResolveToCanonicalNames(spec.template, spec.net,
                             spec.is_template_regex, spec.is_net_regex)]

\* resolve_line_nets
ResolveLineNets(data) == UNION {ResolveCache[spec] : spec \in NetSpecs(data)}

\* every net name a line can resolve to: the canonical nets of the top cell
Nets == AllNetsInTemplates[TopCellName]

\* the net names the store is driven with when it is driven directly
StoreNets == {<<"a">>, <<"b">>}

\* a line id that is not in the document
NoLine == [kind |-> "NoLine"]

\* ConflictDetector.rebuild builds this map: the lines that carry data whose
\* resolved net set is not empty
RebuildLineNets(lines) ==
  [l \in {x \in DOMAIN lines :
            /\ lines[x] # NoLine
            /\ lines[x] # None
            /\ ResolveLineNets(lines[x]) # {}} |-> ResolveLineNets(lines[l])]

\* a rebuild that adds to the entries the store already holds
DetectorRebuildMerge(lines) ==
  LET built == RebuildLineNets(lines)
  IN StoreBuildFromLines(
       [l \in (DOMAIN built) \cup (DOMAIN line_nets) |->
          IF l \in DOMAIN built THEN built[l] ELSE line_nets[l]])

\* ConflictDetector.rebuild
DetectorRebuild(lines) == StoreBuildFromLines(RebuildLineNets(lines))

\* an update_line that returns early, without remove_line, on data None
DetectorUpdateLineKeepNone(s, line_id, data) ==
  IF data = None THEN [s EXCEPT !.raised = FALSE]
  ELSE StoreUpdateLine(s, line_id, ResolveLineNets(data))

\* ConflictDetector.update_line
DetectorUpdateLine(s, line_id, data) ==
  IF data = None THEN StoreRemoveLine(s, line_id)
  ELSE StoreUpdateLine(s, line_id, ResolveLineNets(data))

\* a remove_line that uses "del _line_nets[line_id]": KeyError when absent
DetectorRemoveLineDel(s, line_id) ==
  [StoreRemoveLine(s, line_id) EXCEPT !.raised = line_id \notin DOMAIN s.ln]

\* ConflictDetector.remove_line
DetectorRemoveLine(s, line_id) == StoreRemoveLine(s, line_id)

(***************************************************************************)
(* SPICE-backed query service (src/src/nqs/spice_nqs.py).                  *)
(*                                                                         *)
(* Here a name is a Python str, written as the sequence of its characters, *)
(* so that len(name) and the order of two names are those of the code:     *)
(* "ic/n2" is <<"i", "c", "/", "n", "2">>.                                 *)
(***************************************************************************)
Alphabet ==
  <<"a", "b", "c", "d", "e", "f", "g", "h", "i", "j", "k", "l", "m",
    "n", "o", "p", "q", "r", "s", "t", "u", "v", "w", "x", "y", "z">>

Digits == <<"0", "1", "2", "3", "4", "5", "6", "7", "8", "9">>

\* ord(c) for the characters of lower-cased net and instance names
Ord(c) ==
  CASE c = "/" -> 47
    [] c = "_" -> 95
    [] \E i \in DOMAIN Digits : Digits[i] = c ->
         47 + (CHOOSE i \in DOMAIN Digits : Digits[i] = c)
    [] OTHER -> 96 + (CHOOSE i \in DOMAIN Alphabet : Alphabet[i] = c)

\* a < b on two str: at the first position where they differ the character
\* of a is the smaller one, or a is a proper prefix of b
StrLess(a, b) ==
  \/ \E i \in 1..Len(a) :
       /\ i <= Len(b)
       /\ \A j \in 1..(i - 1) : a[j] = b[j]
       /\ Ord(a[i]) < Ord(b[i])
  \/ /\ Len(a) < Len(b)
     /\ \A j \in 1..Len(a) : a[j] = b[j]

\* name.count("/")
Depth(name) == Cardinality({i \in DOMAIN name : name[i] = "/"})

\* int(b) of a bool, the order in which tuples compare them
BoolRank(b) == IF b THEN 1 ELSE 0

\* _preference with hierarchical names ranked before local ones
PreferenceHierFirst(port_set, name) ==
  LET is_port == name \in port_set
      is_local == Depth(name) = 0
  IN <<BoolRank(~is_port), BoolRank(is_local), Depth(name), Len(name), name>>

\* _build_template_data._preference
Preference(port_set, name) ==
  LET is_port == name \in port_set
      is_local == Depth(name) = 0
  IN <<BoolRank(~is_port), BoolRank(~is_local), Depth(name), Len(name), name>>

\* p < q on two preference tuples
PreferenceLess(p, q) ==
  \/ p[1] < q[1]
  \/ p[1] = q[1] /\ p[2] < q[2]
  \/ p[1] = q[1] /\ p[2] = q[2] /\ p[3] < q[3]
  \/ p[1] = q[1] /\ p[2] = q[2] /\ p[3] = q[3] /\ p[4] < q[4]
  \/ p[1] = q[1] /\ p[2] = q[2] /\ p[3] = q[3] /\ p[4] = q[4]
       /\ StrLess(p[5], q[5])

\* alias_map.get(n, n)
AliasGet(map, n) == IF n \in DOMAIN map THEN map[n] ELSE n

RECURSIVE FindFrom(_, _, _)
\* the loop of _find, entered with the names visited so far
FindFrom(map, n, visited) ==
  IF AliasGet(map, n) = n THEN n
  ELSE IF n \in visited THEN n
  ELSE FindFrom(map, map[n], visited \cup {n})

\* _build_template_data._find
Find(map, n) == FindFrom(map, n, {})

\* an alias_map under construction: the dict and its keys in insertion order
EmptyAliases == [map |-> EmptyDict, keys |-> <<>>]

\* alias_map[k] = v
AliasPut(am, k, v) ==
  [map |-> DictSet(am.map, k, v),
   keys |-> IF k \in DOMAIN am.map THEN am.keys ELSE Append(am.keys, k)]

\* _merge with the comparison turned round
MergeReversed(am, port_set, child, parent) ==
  LET pc == Find(am.map, parent)
      cc == Find(am.map, child)
  IN IF pc = cc THEN am
     ELSE IF PreferenceLess(Preference(port_set, pc), Preference(port_set, cc))
          THEN AliasPut(am, pc, cc)
          ELSE AliasPut(am, cc, pc)

\* _build_template_data._merge
Merge(am, port_set, child, parent) ==
  LET pc == Find(am.map, parent)
      cc == Find(am.map, child)
  IN IF pc = cc THEN am
     ELSE IF PreferenceLess(Preference(port_set, cc), Preference(port_set, pc))
     THEN AliasPut(am, pc, cc)
     ELSE AliasPut(am, cc, pc)

\* SubcktInstance
SubcktInstance(inst_name, connections, subckt_name) ==
  [inst_name |-> inst_name, connections |-> connections,
   subckt_name |-> subckt_name]

\* the set of the elements of a list
Elems(seq) == {seq[i] : i \in DOMAIN seq}

\* SubcktDef as parse_spice_file fills it: local_nets holds the ports, the
\* connections of every instance and the terminals of every MOSFET
SubcktDef(ports, instances, mos_nets) ==
  [ports |-> ports, instances |-> instances,
   local_nets |-> Elems(ports) \cup mos_nets
                    \cup UNION {Elems(instances[i].connections) : i \in DOMAIN instances}]

\* pin_map: child port -> parent net, a later port of the same name wins
PinMap(child_def, inst) ==
  LET n == IF Len(child_def.ports) < Len(inst.connections)
           THEN Len(child_def.ports) ELSE Len(inst.connections)
  IN [p \in {child_def.ports[i] : i \in 1..n} |->
        inst.connections[CHOOSE i \in 1..n :
                           /\ child_def.ports[i] = p
                           /\ \A j \in 1..n : child_def.ports[j] = p => j <= i]]

\* f"{inst.inst_name}/{name}"
HierPath(inst_name, name) == inst_name \o <<"/">> \o name

\* one pass of the loop "for child_net in child_canonical"
CanonicalIter(am, port_set, inst, pin_map, child_net) ==
  LET hier_path == HierPath(inst.inst_name, child_net)
      registered == AliasPut(am, hier_path, hier_path)
  IN IF child_net \in DOMAIN pin_map
     THEN Merge(registered, port_set, hier_path, pin_map[child_net])
     ELSE registered

\* one pass of the loop "for child_alias, child_target in child_aliases.items()"
AliasIter(am, port_set, inst, pin_map, child_alias, child_target) ==
  LET hier_alias == HierPath(inst.inst_name, child_alias)
      hier_target == HierPath(inst.inst_name, child_target)
      registered == AliasPut(am, hier_alias, hier_alias)
  IN IF child_target \in DOMAIN pin_map
     THEN Merge(registered, port_set, hier_alias, pin_map[child_target])
     ELSE Merge(registered, port_set, hier_alias, hier_target)

\* F(e) with e evaluated before the call, as Python evaluates an argument
Strict(F(_), e) == CHOOSE y \in {F(x) : x \in {e}} : TRUE

RECURSIVE SeedLocal(_, _)
\* "for net in defn.local_nets: alias_map[net] = net", in one iteration
\* order of the set
SeedLocal(am, nets) ==
  IF nets = {} THEN am
  ELSE LET net == CHOOSE x \in nets : TRUE
       IN Strict(LAMBDA next : SeedLocal(next, nets \ {net}),
                 AliasPut(am, net, net))

RECURSIVE CanonicalLoop(_, _, _, _, _)
\* the whole loop over child_canonical, in one iteration order of the set
CanonicalLoop(am, port_set, inst, pin_map, todo) ==
  IF todo = {} THEN am
  ELSE LET child_net == CHOOSE x \in todo : TRUE
       IN Strict(LAMBDA next : CanonicalLoop(next, port_set, inst, pin_map,
                                             todo \ {child_net}),
                 CanonicalIter(am, port_set, inst, pin_map, child_net))

RECURSIVE AliasLoop(_, _, _, _, _, _)
\* the whole loop over child_aliases.items(), from the i-th key on
AliasLoop(am, port_set, inst, pin_map, child, i) ==
  IF i > Len(child.keys) THEN am
  ELSE Strict(LAMBDA next : AliasLoop(next, port_set, inst, pin_map, child, i + 1),
              AliasIter(am, port_set, inst, pin_map,
                        child.keys[i], child.map[child.keys[i]]))

RECURSIVE FlattenFrom(_, _, _)
\* "for k in all_keys: alias_map[k] = _find(k)", from the i-th key on
FlattenFrom(am, all_keys, i) ==
  IF i > Len(all_keys) THEN am
  ELSE Strict(LAMBDA next : FlattenFrom(next, all_keys, i + 1),
              AliasPut(am, all_keys[i], Find(am.map, all_keys[i])))

\* set(alias_map.values())
Values(map) == {map[k] : k \in DOMAIN map}

RECURSIVE BuildTemplateData(_, _)
RECURSIVE InstanceLoop(_, _, _, _)
\* the loop "for inst in defn.instances", from the i-th instance on
InstanceLoop(am, subckts, template_name, i) ==
  LET defn == subckts[template_name]
      port_set == Elems(defn.ports)
  IN IF i > Len(defn.instances) THEN am
     ELSE LET inst == defn.instances[i]
          IN IF inst.subckt_name \notin DOMAIN subckts
             THEN InstanceLoop(am, subckts, template_name, i + 1)
             ELSE LET pin_map == PinMap(subckts[inst.subckt_name], inst)
                      child == BuildTemplateData(subckts, inst.subckt_name)
                  IN Strict(LAMBDA next : InstanceLoop(next, subckts, template_name, i + 1),
                            Strict(LAMBDA canon : AliasLoop(canon, port_set, inst,
                                                            pin_map, child, 1),
                                   CanonicalLoop(am, port_set, inst, pin_map,
                                                 child.canonical_nets)))

\* the flattening loop over all_keys = list(alias_map.keys())
Flatten(am) == FlattenFrom(am, am.keys, 1)

\* every key of alias_map taken for a canonical net
TemplateDataAllKeys(flat) ==
  [canonical_nets |-> DOMAIN flat.map, map |-> flat.map, keys |-> flat.keys]

\* the value _build_template_data returns, with the key order of alias_map
TemplateData(flat) ==
  [canonical_nets |-> Values(flat.map), map |-> flat.map, keys |-> flat.keys]

\* _build_template_data
BuildTemplateData(subckts, template_name) ==
  TemplateData(
    Flatten(
      InstanceLoop(SeedLocal(EmptyAliases, subckts[template_name].local_nets),
                   subckts, template_name, 1)))

(***************************************************************************)
(* The SPICE netlists the service is built on: the hierarchy                *)
(*     d(n3 m3), with the internal net gd1                                  *)
(*     c(n2 m2)  = id1: d(n2 m2),  id2: d(n2 do)                            *)
(*     b(n1 o1)  = ic: c(n1 np)                                             *)
(*     orphan(z) = iu: u(z), u not defined; orphan is never instantiated    *)
(*     mycell(in1 in2) = ib1: b(in1 in2),  ib2: b(conn)                     *)
(* for every list conn of at most MaxConn nets of mycell.                   *)
(***************************************************************************)
MaxConn == 2

\* the top cell given to the constructor, lower-cased
SpiceTopCell == "mycell"

\* the nets that ib2 can be connected to
TopPorts == {<<"i", "n", "1">>, <<"i", "n", "2">>}

\* the connection lists of ib2
ConnLists == UNION {[1..n -> TopPorts] : n \in 1..MaxConn}

\* parse_spice_file's result for the netlist in which ib2 has connections conn
Subckts(conn) ==
  [d |-> SubcktDef(<<(<<"n", "3">>), (<<"m", "3">>)>>, <<>>,
                   {<<"g", "d", "1">>, <<"n", "3">>, <<"m", "3">>}),
   c |-> SubcktDef(<<(<<"n", "2">>), (<<"m", "2">>)>>,
                   <<SubcktInstance(<<"i", "d", "1">>,
                                    <<(<<"n", "2">>), (<<"m", "2">>)>>, "d"),
                     SubcktInstance(<<"i", "d", "2">>,
                                    <<(<<"n", "2">>), (<<"d", "o">>)>>, "d")>>,
                   {}),
   b |-> SubcktDef(<<(<<"n", "1">>), (<<"o", "1">>)>>,
                   <<SubcktInstance(<<"i", "c">>,
                                    <<(<<"n", "1">>), (<<"n", "p">>)>>, "c")>>,
                   {}),
   orphan |-> SubcktDef(<<(<<"z">>)>>,
                        <<SubcktInstance(<<"i", "u">>, <<(<<"z">>)>>, "u")>>,
                        {}),
   mycell |-> SubcktDef(<<(<<"i", "n", "1">>), (<<"i", "n", "2">>)>>,
                        <<SubcktInstance(<<"i", "b", "1">>,
                                         <<(<<"i", "n", "1">>), (<<"i", "n", "2">>)>>,
                                         "b"),
                          SubcktInstance(<<"i", "b", "2">>, conn, "b")>>,
                        {})]

\* SpiceNetlistQueryService._all_templates
SpiceTemplates == {"d", "c", "b", "orphan", "mycell"}

(***************************************************************************)
(* State machine                                                           *)
(*   line_nets, net_lines   the two dicts of the ConflictStore             *)
(*   doc                    the data each document line carries now; kept  *)
(*                          by the detector's callers                      *)
(*   last                   the call that produced the state               *)
(*   before                 what a direct store call found indexed: the    *)
(*                          nets of its line (update_line, remove_line) or *)
(*                          of all lines (build_from_lines, clear)         *)
(*   build                  a _build_template_data call in progress        *)
(*   nqs                    the SpiceNetlistQueryService: its caches and   *)
(*                          the outcome of its last call                   *)
(*   bus                    a call of expand_bus_notation or               *)
(*                          collapse_bus_notation and its outcome          *)
(*   parse                  a parse of a SPICE text in progress            *)
(*   db                     a NetlistDatabase and the threads closing it   *)
(*   document               a Document with its undo and redo stacks       *)
(*   session                a MutexEditSessionState                        *)
(***************************************************************************)
Store == [ln |-> line_nets, nl |-> net_lines, raised |-> FALSE]

Call(op, line, nets, map, raised) ==
  [op |-> op, line |-> line, nets |-> nets, map |-> map, raised |-> raised]

\* no _build_template_data call is under way
NoBuild == [phase |-> "none"]

\* no SpiceNetlistQueryService has been constructed
NoService == [open |-> FALSE]

\* no call of the bus notation helpers has been made
NoBus == [op |-> "none", done |-> FALSE]

\* no text is being parsed
NoParse == [phase |-> "none"]

\* no NetlistDatabase has been constructed
NoDb == [open |-> FALSE, threads |-> <<>>]

\* no Document has been constructed
NoDocument == [lines |-> <<>>, made |-> FALSE]

\* no MutexEditSessionState has been constructed
NoSession == [made |-> FALSE]

\* no resolver has been constructed
NoCache == [made |-> FALSE]

\* no function has been called
NoPure == [op |-> "none", done |-> FALSE]

\* no construction of a resolver is under way
NoCtor == [phase |-> "none"]

\* no DocumentService has been constructed
NoDocumentService == [made |-> FALSE]

\* a fresh ConflictStore and a document without lines
StoreInit ==
  /\ line_nets = EmptyDict
  /\ net_lines = EmptyDict
  /\ doc = [l \in Lines |-> NoLine]
  /\ last = Call("init", 0, {}, EmptyDict, FALSE)
  /\ before = {}

Init ==
  /\ StoreInit
  /\ build = NoBuild
  /\ nqs = NoService
  /\ bus = NoBus
  /\ parse = NoParse
  /\ db = NoDb
  /\ document = NoDocument
  /\ session = NoSession
  /\ cache = NoCache
  /\ pure = NoPure
  /\ ctor = NoCtor
  /\ service = NoDocumentService

\* the maps build_from_lines is called with: any lines, any net sets, the
\* empty set included
LineNetMaps == UNION {[ls -> SUBSET StoreNets] : ls \in SUBSET Lines}

\* the call op(line, nets, map) ended and left the store as s
Returned(s, op, line, nets, map) ==
  /\ line_nets' = s.ln
  /\ net_lines' = s.nl
  /\ last' = Call(op, line, nets, map, s.raised)
  /\ UNCHANGED <<build, nqs, bus, parse, db, document, session,
                 cache, pure, ctor, service>>

\* the nets indexed for any line
IndexedNets == UNION {line_nets[l] : l \in DOMAIN line_nets}

\* store.update_line(line_id, nets)
UpdateLine(line_id, nets) ==
  /\ Returned(StoreUpdateLine(Store, line_id, nets),
              "update_line", line_id, nets, EmptyDict)
  /\ before' = DictGet(line_nets, line_id)
  /\ UNCHANGED doc

\* store.remove_line(line_id)
RemoveLine(line_id) ==
  /\ Returned(StoreRemoveLine(Store, line_id), "remove_line", line_id, {}, EmptyDict)
  /\ before' = DictGet(line_nets, line_id)
  /\ UNCHANGED doc

\* store.build_from_lines(m)
BuildFromLines(m) ==
  /\ Returned(StoreBuildFromLines(m), "build_from_lines", 0, {}, m)
  /\ before' = IndexedNets
  /\ UNCHANGED doc

\* store.clear()
Clear ==
  /\ Returned(StoreClear, "clear", 0, {}, EmptyDict)
  /\ before' = IndexedNets
  /\ UNCHANGED doc

NextStore ==
  \/ \E l \in Lines, nets \in SUBSET StoreNets : UpdateLine(l, nets)
  \/ \E l \in Lines : RemoveLine(l)
  \/ \E m \in LineNetMaps : BuildFromLines(m)
  \/ Clear

\* the ConflictStore driven directly
SpecStore == Init /\ [][NextStore]_vars

\* detector.rebuild(lines): the document is loaded
Rebuild(lines) ==
  /\ Returned(DetectorRebuild(lines), "rebuild", 0, {}, EmptyDict)
  /\ doc' = lines
  /\ UNCHANGED before

\* detector.update_line(line_id, data): the line was edited
DetUpdateLine(line_id, data) ==
  /\ Returned(DetectorUpdateLine(Store, line_id, data),
              "det_update_line", line_id, {}, EmptyDict)
  /\ doc' = [doc EXCEPT ![line_id] = data]
  /\ UNCHANGED before

\* detector.remove_line(line_id): the line was deleted
DetRemoveLine(line_id) ==
  /\ Returned(DetectorRemoveLine(Store, line_id),
              "det_remove_line", line_id, {}, EmptyDict)
  /\ doc' = [doc EXCEPT ![line_id] = NoLine]
  /\ UNCHANGED before

\* the documents rebuild is called with
Documents == [Lines -> DataSet \cup {None, NoLine}]

Next ==
  \/ \E lines \in Documents : Rebuild(lines)
  \/ \E l \in Lines, data \in DataSet \cup {None} : DetUpdateLine(l, data)
  \/ \E l \in Lines : DetRemoveLine(l)

\* the ConflictStore driven by its ConflictDetector
Spec == Init /\ [][Next]_vars

(***************************************************************************)
(* _build_template_data, one loop iteration per step.  build holds         *)
(*   conn, tpl    the netlist (the connections of ib2) and template_name   *)
(*   map          alias_map                                                *)
(*   inst         the index of the instance the outer loop is at           *)
(*   phase        "inst" between two instances, "canon" in the loop over   *)
(*                child_canonical, "alias" in the loop over child_aliases, *)
(*                "done" after the flattening loop                         *)
(*   todo, idx    what the two inner loops have left                       *)
(*   merged       the arguments of the _merge call of the last iteration   *)
(*   canonical_nets   the set the call returns with alias_map              *)
(* child_canonical is a set, so its loop runs in any order; the loop over  *)
(* child_aliases follows the key order of the child's dict.                *)
(***************************************************************************)
\* _canonical_nets and _alias_maps as the constructor fills them, for every
\* netlist of the family
SpiceData ==
  [conn \in ConnLists |->
     [t \in SpiceTemplates |-> BuildTemplateData(Subckts(conn), t)]]

\* the last iteration called no _merge
NoMerge == [called |-> FALSE]

\* the last iteration called _merge(child, parent)
MergeCall(child, parent) == [called |-> TRUE, child |-> child, parent |-> parent]

RECURSIVE SomeOrder(_)
\* the elements of a set in one order
SomeOrder(S) ==
  IF S = {} THEN <<>>
  ELSE LET x == CHOOSE x \in S : TRUE IN <<x>> \o SomeOrder(S \ {x})

\* the dict of a step as an alias_map; the steps do not depend on key order
AsAliases(map) == [map |-> map, keys |-> <<>>]

BuildDefn == Subckts(build.conn)[build.tpl]

BuildInst == BuildDefn.instances[build.inst]

BuildChild == SpiceData[build.conn][BuildInst.subckt_name]

BuildPinMap == PinMap(Subckts(build.conn)[BuildInst.subckt_name], BuildInst)

\* the call is entered: local nets are seeded
InitAlias ==
  /\ StoreInit
  /\ nqs = NoService
  /\ bus = NoBus
  /\ parse = NoParse
  /\ db = NoDb
  /\ document = NoDocument
  /\ session = NoSession
  /\ cache = NoCache
  /\ pure = NoPure
  /\ ctor = NoCtor
  /\ service = NoDocumentService
  /\ \E conn \in ConnLists, t \in SpiceTemplates :
       build = [conn |-> conn, tpl |-> t,
                map |-> SeedLocal(EmptyAliases, Subckts(conn)[t].local_nets).map,
                inst |-> 1, phase |-> "inst", todo |-> {}, idx |-> 0,
                merged |-> NoMerge, canonical_nets |-> {}]

\* "for inst in defn.instances" reaches an instance of a known template
BeginInstance ==
  /\ build.phase = "inst"
  /\ build.inst <= Len(BuildDefn.instances)
  /\ BuildInst.subckt_name \in SpiceTemplates
  /\ build' = [build EXCEPT !.phase = "canon",
                            !.todo = BuildChild.canonical_nets,
                            !.merged = NoMerge]
  /\ UNCHANGED <<line_nets, net_lines, doc, last, before, nqs,
               bus, parse, db, document, session,
                 cache, pure, ctor, service>>

\* "if child_def is None: continue"
SkipInstance ==
  /\ build.phase = "inst"
  /\ build.inst <= Len(BuildDefn.instances)
  /\ BuildInst.subckt_name \notin SpiceTemplates
  /\ build' = [build EXCEPT !.inst = @ + 1, !.merged = NoMerge]
  /\ UNCHANGED <<line_nets, net_lines, doc, last, before, nqs,
               bus, parse, db, document, session,
                 cache, pure, ctor, service>>

\* one pass of "for child_net in child_canonical"
CanonicalStep(child_net) ==
  /\ build.phase = "canon"
  /\ child_net \in build.todo
  /\ build' = [build EXCEPT
       !.map = CanonicalIter(AsAliases(build.map), Elems(BuildDefn.ports),
                             BuildInst, BuildPinMap, child_net).map,
       !.todo = @ \ {child_net},
       !.merged = IF child_net \in DOMAIN BuildPinMap
                  THEN MergeCall(HierPath(BuildInst.inst_name, child_net),
                                 BuildPinMap[child_net])
                  ELSE NoMerge]
  /\ UNCHANGED <<line_nets, net_lines, doc, last, before, nqs,
               bus, parse, db, document, session,
                 cache, pure, ctor, service>>

\* the loop over child_canonical is exhausted
BeginAliases ==
  /\ build.phase = "canon"
  /\ build.todo = {}
  /\ build' = [build EXCEPT !.phase = "alias", !.idx = 1, !.merged = NoMerge]
  /\ UNCHANGED <<line_nets, net_lines, doc, last, before, nqs,
               bus, parse, db, document, session,
                 cache, pure, ctor, service>>

\* one pass of "for child_alias, child_target in child_aliases.items()"
AliasStep ==
  /\ build.phase = "alias"
  /\ build.idx <= Len(BuildChild.keys)
  /\ LET child_alias == BuildChild.keys[build.idx]
         child_target == BuildChild.map[child_alias]
     IN build' = [build EXCEPT
          !.map = AliasIter(AsAliases(build.map), Elems(BuildDefn.ports),
                            BuildInst, BuildPinMap, child_alias, child_target).map,
          !.idx = @ + 1,
          !.merged = MergeCall(HierPath(BuildInst.inst_name, child_alias),
                               IF child_target \in DOMAIN BuildPinMap
                               THEN BuildPinMap[child_target]
                               ELSE HierPath(BuildInst.inst_name, child_target))]
  /\ UNCHANGED <<line_nets, net_lines, doc, last, before, nqs,
               bus, parse, db, document, session,
                 cache, pure, ctor, service>>

\* the loop over child_aliases is exhausted: on to the next instance
EndInstance ==
  /\ build.phase = "alias"
  /\ build.idx > Len(BuildChild.keys)
  /\ build' = [build EXCEPT !.phase = "inst", !.inst = @ + 1, !.idx = 0,
                            !.merged = NoMerge]
  /\ UNCHANGED <<line_nets, net_lines, doc, last, before, nqs,
               bus, parse, db, document, session,
                 cache, pure, ctor, service>>

\* all instances are expanded: the flattening loop runs and the call returns
FlattenStep ==
  /\ build.phase = "inst"
  /\ build.inst > Len(BuildDefn.instances)
  /\ LET data == TemplateData(Flatten([map |-> build.map,
                                        keys |-> SomeOrder(DOMAIN build.map)]))
     IN build' = [build EXCEPT !.map = data.map,
                               !.canonical_nets = data.canonical_nets,
                               !.phase = "done", !.merged = NoMerge]
  /\ UNCHANGED <<line_nets, net_lines, doc, last, before, nqs,
               bus, parse, db, document, session,
                 cache, pure, ctor, service>>

NextAlias ==
  \/ BeginInstance
  \/ SkipInstance
  \/ \E child_net \in build.todo : CanonicalStep(child_net)
  \/ BeginAliases
  \/ AliasStep
  \/ EndInstance
  \/ FlattenStep

\* _build_template_data called for one template of one netlist
SpecAlias == InitAlias /\ [][NextAlias]_vars

(***************************************************************************)
(* SpiceNetlistQueryService and NetlistDatabase: pattern matching          *)
(*                                                                         *)
(* A pattern is a Python str, written like a net name as a sequence of     *)
(* characters.  The patterns drawn as inputs use literal characters, ".",  *)
(* a postfix "*", a leading "^", a trailing "$" and an unclosed "(".       *)
(***************************************************************************)
\* the template names as Python strs
TemplateChars ==
  [d |-> <<"d">>, c |-> <<"c">>, b |-> <<"b">>,
   orphan |-> <<"o", "r", "p", "h", "a", "n">>,
   mycell |-> <<"m", "y", "c", "e", "l", "l">>]

\* str.lower() on one character of the names that are drawn as inputs
LowerChar(ch) ==
  CASE ch = "D" -> "d"
    [] ch = "B" -> "b"
    [] ch = "I" -> "i"
    [] ch = "N" -> "n"
    [] OTHER -> ch

\* str.lower()
LowerStr(str) == [i \in DOMAIN str |-> LowerChar(str[i])]

\* re.compile(expr) raises re.error: nothing to repeat, or a parenthesis
\* without its partner
ReError(expr) ==
  \/ expr # <<>> /\ expr[1] = "*"
  \/ Cardinality({i \in DOMAIN expr : expr[i] = "("})
       # Cardinality({i \in DOMAIN expr : expr[i] = ")"})

\* one pattern character against one character of the item, re.IGNORECASE
CharMatch(pc, sc) == pc = "." \/ LowerChar(pc) = LowerChar(sc)

RECURSIVE MatchHere(_, _)
\* the pattern p matches a prefix of s
MatchHere(p, s) ==
  IF p = <<>> THEN TRUE
  ELSE IF Len(p) >= 2 /\ p[2] = "*"
       THEN \E k \in 0..Len(s) :
              /\ \A i \in 1..k : CharMatch(p[1], s[i])
              /\ MatchHere(SubSeq(p, 3, Len(p)), SubSeq(s, k + 1, Len(s)))
  ELSE IF p = <<"$">> THEN s = <<>>
  ELSE /\ s # <<>>
       /\ CharMatch(p[1], s[1])
       /\ MatchHere(Tail(p), Tail(s))

\* re.search(expr, item, re.IGNORECASE) is not None, for an expr that compiles
ReSearch(expr, item) ==
  IF expr # <<>> /\ expr[1] = "^" THEN MatchHere(Tail(expr), item)
  ELSE \E j \in 0..Len(item) : MatchHere(expr, SubSeq(item, j + 1, Len(item)))

\* a REGEXP function that lets re.error leave the callback
RegexpCallbackRaises(expr, item) ==
  IF ReError(expr) THEN [value |-> 0, raised |-> TRUE]
  ELSE [value |-> IF ReSearch(expr, item) THEN 1 ELSE 0, raised |-> FALSE]

\* the REGEXP function both classes register with SQLite: the value it
\* returns for one row and whether an exception leaves it.  The columns it
\* is applied to are NOT NULL, so item is never None.
RegexpCallback(expr, item) ==
  IF ReError(expr) THEN [value |-> 0, raised |-> FALSE]
  ELSE [value |-> IF ReSearch(expr, item) THEN 1 ELSE 0, raised |-> FALSE]

\* cursor.execute of "SELECT ... WHERE <column> REGEXP ?" over the rows that
\* pass the other conditions, Item(r) being the column of row r: the rows
\* the function returns 1 for, unless an exception in the function aborts
\* the statement
SqlRegexp(rows, Item(_), expr) ==
  IF \E r \in rows : RegexpCallback(expr, Item(r)).raised
  THEN [rows |-> {}, raised |-> TRUE]
  ELSE [rows |-> {r \in rows : RegexpCallback(expr, Item(r)).value = 1},
        raised |-> FALSE]

(***************************************************************************)
(* SpiceNetlistQueryService.  self is the service object: conn names the   *)
(* netlist it was constructed from, canonical_nets, alias_maps,            *)
(* net_id_map, id_net_map and template_instances are the attributes of     *)
(* these names.  A call returns [value, raised].                           *)
(***************************************************************************)
\* a call that returns v
Ok(v) == [value |-> v, raised |-> FALSE]

\* a call that an exception leaves
Raised == [value |-> {}, raised |-> TRUE]

\* _get_matching_templates
SpiceMatchingTemplates(template_name, template_regex) ==
  IF ~template_regex
  THEN {t \in SpiceTemplates : TemplateChars[t] = template_name}
  ELSE LET results == SqlRegexp(SpiceTemplates, LAMBDA t : TemplateChars[t],
                                template_name)
       IN IF results.raised THEN {} ELSE results.rows

\* get_matching_templates
SpiceGetMatchingTemplates(template_pattern, is_regex) ==
  IF template_pattern = <<>> THEN Ok({})
  ELSE Ok(SpiceMatchingTemplates(
            IF is_regex THEN template_pattern ELSE LowerStr(template_pattern),
            is_regex))

\* _resolve_canonical_net_name
SpiceResolveCanonicalNetName(self, template_name, net_name) ==
  LET alias_map == self.alias_maps[template_name]
      canonical_set == self.canonical_nets[template_name]
  IN IF net_name = <<>> THEN NoName
     ELSE IF net_name \in DOMAIN alias_map THEN alias_map[net_name]
     ELSE IF net_name \in canonical_set THEN net_name
     ELSE NoName

\* _format_single_net_result
SpiceFormatSingleNetResult(template_name, net_name) ==
  IF template_name = SpiceTopCell THEN net_name
  ELSE TemplateChars[template_name] \o <<":">> \o net_name

\* the rows of the table nets for the given templates
NetRows(self, templates) ==
  UNION {{<<t, n>> : n \in self.canonical_nets[t]} : t \in templates}

\* _match_nets_regex
SpiceMatchNetsRegex(self, templates, net_name) ==
  LET results == SqlRegexp(NetRows(self, templates), LAMBDA r : r[2], net_name)
  IN IF results.raised THEN {}
     ELSE {SpiceFormatSingleNetResult(r[1], r[2]) : r \in results.rows}

\* _match_nets_exact
SpiceMatchNetsExact(self, templates, net_name) ==
  {SpiceFormatSingleNetResult(r[1], r[2]) :
     r \in {x \in NetRows(self, templates) : x[2] = net_name}}

\* _get_matching_alias_nets
SpiceGetMatchingAliasNets(self, templates, net_name) ==
  UNION {LET canonical == SpiceResolveCanonicalNetName(self, t, net_name)
         IN IF canonical = NoName THEN {}
            ELSE {SpiceFormatSingleNetResult(t, canonical)} :
         t \in templates}

\* find_matches, its first component (the matching nets)
SpiceFindMatches(self, template_name, net_name, template_regex, net_regex) ==
  IF net_name = <<>> THEN Ok({})
  ELSE LET tpl == IF template_name = <<>> THEN TemplateChars[SpiceTopCell]
                  ELSE template_name
           tpl_n == IF template_regex THEN tpl ELSE LowerStr(tpl)
           net_n == IF net_regex THEN net_name ELSE LowerStr(net_name)
           matching_templates == SpiceMatchingTemplates(tpl_n, template_regex)
       IN IF matching_templates = {} THEN Ok({})
          ELSE IF net_regex
               THEN Ok(SpiceMatchNetsRegex(self, matching_templates, net_n))
          ELSE Ok(SpiceMatchNetsExact(self, matching_templates, net_n)
                    \cup SpiceGetMatchingAliasNets(self, matching_templates, net_n))

RECURSIVE Sorted(_)
\* sorted() of a set of strs
Sorted(S) ==
  IF S = {} THEN <<>>
  ELSE LET least == CHOOSE m \in S : \A x \in S \ {m} : StrLess(m, x)
       IN <<least>> \o Sorted(S \ {least})

\* enumerate() without sort: the names in an order sorted() did not make
BuildCanonicalIdTableUnsorted(conn) ==
  LET top_canonical == SomeOrder(SpiceData[conn][SpiceTopCell].canonical_nets)
      backwards == [i \in DOMAIN top_canonical |->
                      top_canonical[Len(top_canonical) + 1 - i]]
      unsorted == IF top_canonical = Sorted(Elems(top_canonical))
                  THEN backwards ELSE top_canonical
  IN [net_id_map |-> [name \in Elems(unsorted) |->
                        (CHOOSE i \in DOMAIN unsorted : unsorted[i] = name) - 1],
      id_net_map |-> [i \in 0..(Len(unsorted) - 1) |-> unsorted[i + 1]]]

\* _build_canonical_id_table: _net_id_map and _id_net_map
BuildCanonicalIdTable(conn) ==
  LET top_canonical == Sorted(SpiceData[conn][SpiceTopCell].canonical_nets)
  IN [net_id_map |-> [name \in Elems(top_canonical) |->
                        (CHOOSE i \in DOMAIN top_canonical :
                           top_canonical[i] = name) - 1],
      id_net_map |-> [i \in 0..(Len(top_canonical) - 1) |-> top_canonical[i + 1]]]

RECURSIVE Traverse(_, _, _, _, _)
\* _build_instance_paths.traverse(template, prefix) from its i-th instance
\* on, given _template_instances as filled so far
Traverse(subckts, template_instances, template, prefix, i) ==
  IF template \notin DOMAIN subckts THEN template_instances
  ELSE LET defn == subckts[template]
       IN IF i > Len(defn.instances) THEN template_instances
          ELSE LET inst == defn.instances[i]
                   path == IF prefix = <<>> THEN inst.inst_name
                           ELSE HierPath(prefix, inst.inst_name)
                   child == inst.subckt_name
               IN IF child \in DOMAIN subckts
                  THEN Strict(LAMBDA next : Traverse(subckts, next, template,
                                                     prefix, i + 1),
                              Traverse(subckts,
                                       [template_instances EXCEPT
                                          ![child] = Append(@, path)],
                                       child, path, 1))
                  ELSE Traverse(subckts, template_instances, template,
                                prefix, i + 1)

\* _build_instance_paths: _template_instances, a missing key being the
\* empty list
BuildInstancePaths(conn) ==
  Traverse(Subckts(conn), [t \in SpiceTemplates |-> <<>>], SpiceTopCell, <<>>, 1)

\* _resolve_tpl_net_to_top_ids with only the first instance path expanded
ResolveTplNetToTopIdsFirstPath(self, tpl, net) ==
  IF tpl = SpiceTopCell
  THEN IF net \in DOMAIN self.net_id_map THEN {self.net_id_map[net]} ELSE {}
  ELSE LET top_alias == self.alias_maps[SpiceTopCell]
           paths == self.template_instances[tpl]
           hiers == {HierPath(paths[i], net) : i \in DOMAIN paths \cap {1}}
       IN {self.net_id_map[top_alias[hier]] :
             hier \in {h \in hiers : /\ h \in DOMAIN top_alias
                                     /\ top_alias[h] \in DOMAIN self.net_id_map}}

\* _resolve_tpl_net_to_top_ids looking the hierarchical name up in the id
\* table without going through the alias map of the top cell
ResolveTplNetToTopIdsNoAlias(self, tpl, net) ==
  IF tpl = SpiceTopCell
  THEN IF net \in DOMAIN self.net_id_map THEN {self.net_id_map[net]} ELSE {}
  ELSE LET paths == self.template_instances[tpl]
           hiers == {HierPath(paths[i], net) : i \in DOMAIN paths}
       IN {self.net_id_map[hier] : hier \in hiers \cap DOMAIN self.net_id_map}

\* _resolve_tpl_net_to_top_ids, the body behind its lru_cache
ResolveTplNetToTopIds(self, tpl, net) ==
  IF tpl = SpiceTopCell
  THEN IF net \in DOMAIN self.net_id_map THEN {self.net_id_map[net]} ELSE {}
  ELSE LET top_alias == self.alias_maps[SpiceTopCell]
           paths == self.template_instances[tpl]
           hiers == {HierPath(paths[i], net) : i \in DOMAIN paths}
       IN {self.net_id_map[top_alias[hier]] :
             hier \in {h \in hiers : /\ h \in DOMAIN top_alias
                                     /\ top_alias[h] \in DOMAIN self.net_id_map}}

\* _resolve_matching_nets_in_template
SpiceResolveMatchingNets(self, template, net_name, net_regex) ==
  IF net_regex
  THEN LET results == SqlRegexp(NetRows(self, {template}), LAMBDA r : r[2],
                                net_name)
       IN IF results.raised THEN Raised
          ELSE Ok({r[2] : r \in results.rows})
  ELSE LET canonical == SpiceResolveCanonicalNetName(self, template, net_name)
       IN IF canonical = NoName THEN Ok({}) ELSE Ok({canonical})

\* resolve_to_canonical_ids raising when the template pattern matches nothing
ResolvedPairsNoTemplateRaises(self, template, net_name, template_regex, net_regex) ==
  LET tpl_name == IF template = <<>> THEN TemplateChars[SpiceTopCell] ELSE template
      tpl_norm == IF template_regex THEN tpl_name ELSE LowerStr(tpl_name)
      net_norm == IF net_regex THEN net_name ELSE LowerStr(net_name)
      matching_templates == SpiceMatchingTemplates(tpl_norm, template_regex)
      resolved == [t \in matching_templates |->
                     SpiceResolveMatchingNets(self, t, net_norm, net_regex)]
  IN IF net_name = <<>> THEN Ok({})
     ELSE IF matching_templates = {} THEN Raised
     ELSE IF \E t \in matching_templates : resolved[t].raised THEN Raised
     ELSE Ok(UNION {{<<t, net>> : net \in resolved[t].value} :
                    t \in matching_templates})

\* the (tpl, net) pairs resolve_to_canonical_ids passes to
\* _resolve_tpl_net_to_top_ids, and whether an exception ends the loop
ResolvedPairs(self, template, net_name, template_regex, net_regex) ==
  LET tpl_name == IF template = <<>> THEN TemplateChars[SpiceTopCell] ELSE template
      tpl_norm == IF template_regex THEN tpl_name ELSE LowerStr(tpl_name)
      net_norm == IF net_regex THEN net_name ELSE LowerStr(net_name)
      matching_templates == SpiceMatchingTemplates(tpl_norm, template_regex)
      resolved == [t \in matching_templates |->
                     SpiceResolveMatchingNets(self, t, net_norm, net_regex)]
  IN IF net_name = <<>> THEN Ok({})
     ELSE IF \E t \in matching_templates : resolved[t].raised THEN Raised
     ELSE Ok(UNION {{<<t, net>> : net \in resolved[t].value} :
                    t \in matching_templates})

\* _resolve_tpl_net_to_top_ids through its lru_cache
CachedTopIds(self, pair) ==
  IF pair \in DOMAIN self.top_cache THEN self.top_cache[pair]
  ELSE ResolveTplNetToTopIds(self, pair[1], pair[2])

\* resolve_to_canonical_ids, the body behind its lru_cache
ResolveToCanonicalIds(self, template, net_name, template_regex, net_regex) ==
  LET pairs == ResolvedPairs(self, template, net_name, template_regex, net_regex)
  IN IF pairs.raised THEN Raised
     ELSE Ok(UNION {CachedTopIds(self, pair) : pair \in pairs.value})

\* canonical_net_name
CanonicalNetName(self, net_id) ==
  IF net_id \in DOMAIN self.id_net_map THEN self.id_net_map[net_id] ELSE NoName

\* NetlistDatabase.match_regex on a database of the canonical nets
MatchRegex(self, templates, pattern) ==
  IF templates = {} THEN Ok({})
  ELSE IF ReError(pattern) THEN Raised
  ELSE LET results == SqlRegexp(NetRows(self, templates), LAMBDA r : r[2], pattern)
       IN IF results.raised THEN Raised ELSE Ok(results.rows)

(***************************************************************************)
(* An open SpiceNetlistQueryService under queries.  nqs holds              *)
(*   conn                 the netlist it was constructed from              *)
(*   canonical_nets, alias_maps, net_id_map, id_net_map,                   *)
(*   template_instances   the attributes of these names                    *)
(*   ids_cache            the lru_cache of resolve_to_canonical_ids: the   *)
(*                        argument tuples it holds, each with its result   *)
(*   top_cache            the lru_cache of _resolve_tpl_net_to_top_ids     *)
(*   last                 the last call: op, args, result, whether an      *)
(*                        lru_cache answered it (hit) and the (tpl, net)   *)
(*                        pairs the body of _resolve_tpl_net_to_top_ids    *)
(*                        ran for (computed)                               *)
(* Neither cache reaches its maxsize within the bounds, so nothing is      *)
(* evicted.                                                                *)
(***************************************************************************)
MaxCached == 2

\* the connection lists that give ib2 a net for every port of b
FullConnLists == {conn \in ConnLists : Len(conn) = Len(Subckts(conn)["b"].ports)}

\* the argument tuples (template, net_name, template_regex, net_regex) that
\* resolve_to_canonical_ids is called with; <<>> is None or ""
ResolveQueries ==
  {<<(<<"D">>), (<<"n", "3">>), FALSE, FALSE>>,
   <<(<<"B">>), (<<"n", "1">>), FALSE, FALSE>>,
   <<(<<"D">>), (<<"g", "d", "1">>), FALSE, FALSE>>,
   <<(<<"m", "y", "c", "e", "l", "l">>), (<<"i", "n", "2">>), FALSE, FALSE>>,
   <<(<<"c">>), (<<"i", "d", "1", "/", "n", "3">>), FALSE, FALSE>>,
   <<(<<"d">>), (<<>>), FALSE, FALSE>>,
   <<(<<"u">>), (<<"n", "3">>), FALSE, FALSE>>,
   <<(<<"d">>), (<<"z">>), FALSE, FALSE>>,
   <<(<<"o", "r", "p", "h", "a", "n">>), (<<"z">>), FALSE, FALSE>>,
   <<(<<"^", ".", "$">>), (<<"^", "n">>), TRUE, TRUE>>,
   <<(<<"d">>), (<<"(">>), FALSE, TRUE>>,
   <<(<<"(">>), (<<"n", "3">>), TRUE, FALSE>>}

\* the argument tuples find_matches is called with
FindQueries ==
  {<<(<<"c">>), (<<"i", "d", "1", "/", "n", "3">>), FALSE, FALSE>>,
   <<(<<>>), (<<"I", "N", "1">>), FALSE, FALSE>>,
   <<(<<"d">>), (<<"^", "n">>), FALSE, TRUE>>,
   <<(<<"d">>), (<<"n", "(">>), FALSE, TRUE>>,
   <<(<<"(">>), (<<"n", "3">>), TRUE, FALSE>>}

\* the arguments (template_pattern, is_regex) of get_matching_templates
TemplateQueries ==
  {<<(<<"D">>), FALSE>>,
   <<(<<>>), TRUE>>,
   <<(<<"^", ".", "$">>), TRUE>>,
   <<(<<"*", "d">>), TRUE>>,
   <<(<<"(">>), TRUE>>}

\* the arguments (templates, pattern) of NetlistDatabase.match_regex
MatchRegexQueries ==
  {<<{"d", "b"}, (<<"^", "n">>)>>,
   <<{"d"}, (<<"g", ".", "*", "1">>)>>,
   <<{"d"}, (<<"(">>)>>,
   <<{"d", "b"}, (<<"*">>)>>,
   <<{}, (<<"(">>)>>}

\* the first id, the last id and the first number that is not an id
NetIds ==
  LET n == Cardinality(DOMAIN nqs.id_net_map) IN {0, n - 1, n}

\* a call as nqs.last records it
ServiceCall(op, args, result, hit, computed) ==
  [op |-> op, args |-> args, result |-> result, hit |-> hit,
   computed |-> computed]

\* SpiceNetlistQueryService(SpiceTopCell, file) for the netlist of conn
NewService(conn) ==
  LET table == BuildCanonicalIdTable(conn)
  IN [open |-> TRUE, conn |-> conn,
      canonical_nets |-> [t \in SpiceTemplates |-> SpiceData[conn][t].canonical_nets],
      alias_maps |-> [t \in SpiceTemplates |-> SpiceData[conn][t].map],
      net_id_map |-> table.net_id_map,
      id_net_map |-> table.id_net_map,
      template_instances |-> BuildInstancePaths(conn),
      ids_cache |-> EmptyDict,
      top_cache |-> EmptyDict,
      last |-> ServiceCall("__init__", <<>>, Ok({}), FALSE, {})]

\* the service has been constructed
InitResolve ==
  /\ StoreInit
  /\ build = NoBuild
  /\ bus = NoBus
  /\ parse = NoParse
  /\ db = NoDb
  /\ document = NoDocument
  /\ session = NoSession
  /\ cache = NoCache
  /\ pure = NoPure
  /\ ctor = NoCtor
  /\ service = NoDocumentService
  /\ \E conn \in FullConnLists : nqs = NewService(conn)

\* resolve_to_canonical_ids with an lru_cache that is filled and never
\* read: the body runs on every call
LruResolveToCanonicalIdsNoLookup(self, q) ==
  LET pairs == ResolvedPairs(self, q[1], q[2], q[3], q[4])
      result == ResolveToCanonicalIds(self, q[1], q[2], q[3], q[4])
      misses == IF pairs.raised THEN {} ELSE pairs.value \ DOMAIN self.top_cache
  IN [self EXCEPT
        !.ids_cache = IF result.raised THEN @ ELSE DictSet(@, q, result.value),
        !.top_cache = [pair \in DOMAIN @ \cup misses |-> CachedTopIds(self, pair)],
        !.last = ServiceCall("resolve_to_canonical_ids", q, result, FALSE,
                             misses)]

\* resolve_to_canonical_ids through its lru_cache: the service after the call
LruResolveToCanonicalIds(self, q) ==
  IF q \in DOMAIN self.ids_cache
  THEN [self EXCEPT !.last = ServiceCall("resolve_to_canonical_ids", q,
                                         Ok(self.ids_cache[q]), TRUE, {})]
  ELSE LET pairs == ResolvedPairs(self, q[1], q[2], q[3], q[4])
           result == ResolveToCanonicalIds(self, q[1], q[2], q[3], q[4])
           misses == IF pairs.raised THEN {}
                     ELSE pairs.value \ DOMAIN self.top_cache
       IN [self EXCEPT
             !.ids_cache = IF result.raised THEN @
                           ELSE DictSet(@, q, result.value),
             !.top_cache = [pair \in DOMAIN @ \cup misses |->
                              CachedTopIds(self, pair)],
             !.last = ServiceCall("resolve_to_canonical_ids", q, result, FALSE,
                                  misses)]

\* resolve_to_canonical_ids(template, net_name, template_regex, net_regex)
ResolveIds(q) ==
  /\ nqs.open
  /\ q \in DOMAIN nqs.ids_cache \/ Cardinality(DOMAIN nqs.ids_cache) < MaxCached
  /\ nqs' = LruResolveToCanonicalIds(nqs, q)
  /\ UNCHANGED <<line_nets, net_lines, doc, last, before, build,
               bus, parse, db, document, session,
                 cache, pure, ctor, service>>

\* find_matches(template_name, net_name, template_regex, net_regex)
FindMatchesCall(q) ==
  /\ nqs.open
  /\ nqs' = [nqs EXCEPT !.last =
               ServiceCall("find_matches", q,
                           SpiceFindMatches(nqs, q[1], q[2], q[3], q[4]),
                           FALSE, {})]
  /\ UNCHANGED <<line_nets, net_lines, doc, last, before, build,
               bus, parse, db, document, session,
                 cache, pure, ctor, service>>

\* get_matching_templates(template_pattern, is_regex)
MatchingTemplatesCall(q) ==
  /\ nqs.open
  /\ nqs' = [nqs EXCEPT !.last =
               ServiceCall("get_matching_templates", q,
                           SpiceGetMatchingTemplates(q[1], q[2]), FALSE, {})]
  /\ UNCHANGED <<line_nets, net_lines, doc, last, before, build,
               bus, parse, db, document, session,
                 cache, pure, ctor, service>>

\* NetlistDatabase.match_regex(templates, pattern)
MatchRegexCall(q) ==
  /\ nqs.open
  /\ nqs' = [nqs EXCEPT !.last =
               ServiceCall("match_regex", q, MatchRegex(nqs, q[1], q[2]),
                           FALSE, {})]
  /\ UNCHANGED <<line_nets, net_lines, doc, last, before, build,
               bus, parse, db, document, session,
                 cache, pure, ctor, service>>

\* canonical_net_name(net_id)
CanonicalNetNameCall(net_id) ==
  /\ nqs.open
  /\ nqs' = [nqs EXCEPT !.last =
               ServiceCall("canonical_net_name", net_id,
                           Ok(CanonicalNetName(nqs, net_id)), FALSE, {})]
  /\ UNCHANGED <<line_nets, net_lines, doc, last, before, build,
               bus, parse, db, document, session,
                 cache, pure, ctor, service>>

NextResolve ==
  \/ \E q \in ResolveQueries : ResolveIds(q)
  \/ \E q \in FindQueries : FindMatchesCall(q)
  \/ \E q \in TemplateQueries : MatchingTemplatesCall(q)
  \/ \E q \in MatchRegexQueries : MatchRegexCall(q)
  \/ \E net_id \in NetIds : CanonicalNetNameCall(net_id)

\* a constructed service and any sequence of queries
SpecResolve == InitResolve /\ [][NextResolve]_vars

(***************************************************************************)
(* Properties                                                              *)
(***************************************************************************)
\* the lines that own net n according to the forward map alone
Owners(n) == {l \in DOMAIN line_nets : n \in line_nets[l]}

\* the forward map's answer to "do lines l and m share a net"
Share(l, m) ==
  /\ l \in DOMAIN line_nets
  /\ m \in DOMAIN line_nets
  /\ line_nets[l] \cap line_nets[m] # {}

\* the store after the step
StoreAfter == [ln |-> line_nets', nl |-> net_lines', raised |-> FALSE]

\* C1: after every store mutation, in any sequence from the empty store, a
\* line is among a net's owners in net_lines exactly when the net is among
\* the line's nets in line_nets.
C1_MapsConsistent ==
  \A l \in Lines, n \in Nets :
    (n \in DOMAIN net_lines /\ l \in net_lines[n])
      <=> (l \in DOMAIN line_nets /\ n \in line_nets[l])

\* a line was just updated onto a net that another line owns too
C1_Witness ==
  /\ last.op = "update_line"
  /\ before # {}
  /\ \E n \in last.nets : Cardinality(net_lines[n]) >= 2

\* C2: after any sequence of detector update_line and remove_line calls, the
\* two maps are the maps a fresh rebuild over the current document builds, so
\* every line's is_conflicting, conflicting_lines and conflict_info answers
\* are those after a full rebuild.
C2_IncrementalEqualsRebuild ==
  LET fresh == DetectorRebuild(doc)
  IN /\ line_nets = fresh.ln
     /\ net_lines = fresh.nl
     /\ \A l \in Lines :
          /\ IsConflicting(Store, l) = IsConflicting(fresh, l)
          /\ GetConflictingLines(Store, l) = GetConflictingLines(fresh, l)
          /\ GetConflictInfo(Store, l) = GetConflictInfo(fresh, l)

\* one line was edited and two other lines conflict with it
C2_Witness ==
  /\ last.op = "det_update_line"
  /\ doc[last.line] \in DataSet
  /\ Cardinality(GetConflictingLines(Store, last.line)) >= 2

\* the orders in which the entries of a map can be replayed
Orders(S) ==
  {o \in [1..Cardinality(S) -> S] : \A i, j \in DOMAIN o : o[i] = o[j] => i = j}

RECURSIVE ApplyUpdates(_, _, _)
\* update_line(l, m[l]) called for the lines of order, one after the other
ApplyUpdates(s, m, order) ==
  IF order = <<>> THEN s
  ELSE ApplyUpdates(StoreUpdateLine(s, Head(order), m[Head(order)]), m, Tail(order))

\* C3: build_from_lines(M) leaves exactly the maps that update_line(L, M[L]),
\* called once per entry of M on an empty store, leaves, in whatever order
\* the entries are replayed and whatever the store held before.
C3_BuildEqualsUpdates ==
  last.op = "build_from_lines" =>
    \A order \in Orders(DOMAIN last.map) :
      ApplyUpdates(EmptyStore, last.map, order) = Store

\* a map with a net shared by two lines and an entry with no nets was built
\* over a store that held other nets
C3_Witness ==
  /\ last.op = "build_from_lines"
  /\ \E l \in DOMAIN last.map : last.map[l] = {}
  /\ \E n \in DOMAIN net_lines : Cardinality(net_lines[n]) >= 2
  /\ before \ DOMAIN net_lines # {}

\* C4: is_conflicting(L) is true exactly when some net of line_nets[L] is
\* owned by more than one line, and false for a line not in the index.
C4_IsConflictingIffSharedNet ==
  \A l \in Lines :
    /\ IsConflicting(Store, l)
         <=> (l \in DOMAIN line_nets
              /\ \E n \in line_nets[l] : Cardinality(Owners(n)) > 1)
    /\ l \notin DOMAIN line_nets => ~IsConflicting(Store, l)

\* two lines conflict on one net, one of them owns another net alone, and
\* a third line is not indexed
C4_Witness ==
  /\ \E l \in DOMAIN line_nets :
       /\ IsConflicting(Store, l)
       /\ \E n \in line_nets[l] : Owners(n) = {l}
  /\ \E l \in Lines : l \notin DOMAIN line_nets

\* C5: conflicting_lines(L) is exactly the set of lines other than L whose
\* net set shares a net with L's, and never contains L.
C5_ConflictingLinesExact ==
  \A l \in Lines :
    /\ GetConflictingLines(Store, l) = {m \in Lines \ {l} : Share(l, m)}
    /\ l \notin GetConflictingLines(Store, l)

\* a line has two peers and another indexed line has fewer
C5_Witness ==
  \E l, m \in DOMAIN line_nets :
    /\ Cardinality(GetConflictingLines(Store, l)) >= 2
    /\ Cardinality(line_nets[l]) >= 2
    /\ Cardinality(GetConflictingLines(Store, m)) = 1

\* C6: the peer relation is symmetric; two lines with disjoint net sets and
\* no other indexed line are both not conflicting; two lines whose net sets
\* intersect are both conflicting and each is in the other's peer set.
C6_PeersSymmetric ==
  /\ \A l, m \in Lines :
       m \in GetConflictingLines(Store, l) <=> l \in GetConflictingLines(Store, m)
  /\ \A l, m \in DOMAIN line_nets :
       l # m =>
         /\ (DOMAIN line_nets = {l, m} /\ ~Share(l, m))
              => (~IsConflicting(Store, l) /\ ~IsConflicting(Store, m))
         /\ Share(l, m)
              => /\ IsConflicting(Store, l)
                 /\ IsConflicting(Store, m)
                 /\ m \in GetConflictingLines(Store, l)
                 /\ l \in GetConflictingLines(Store, m)

\* two lines were the only indexed lines, with disjoint net sets, and an
\* update_line of one of them has made the sets intersect
C6_Witness ==
  /\ last.op = "update_line"
  /\ \E m \in Lines \ {last.line} :
       /\ DOMAIN line_nets = {last.line, m}
       /\ before # {}
       /\ before \cap line_nets[m] = {}
       /\ Share(last.line, m)

\* C7: conflict_info(L) is None exactly when is_conflicting(L) is false;
\* otherwise its peers are conflicting_lines(L) and its shared nets are
\* exactly the nets of L that more than one line owns.
C7_ConflictInfoExact ==
  \A l \in Lines :
    LET info == GetConflictInfo(Store, l)
    IN /\ (info = None) <=> ~IsConflicting(Store, l)
       /\ info # None =>
            /\ info.conflicting_line_ids = GetConflictingLines(Store, l)
            /\ info.shared_net_ids
                 = {n \in line_nets[l] : Cardinality(Owners(n)) > 1}
            /\ \A n \in line_nets[l] : Owners(n) = {l} => n \notin info.shared_net_ids

\* a conflicting line owns one net together with a peer and one net alone
C7_Witness ==
  \E l \in DOMAIN line_nets :
    /\ GetConflictInfo(Store, l) # None
    /\ \E n \in line_nets[l] : Owners(n) = {l}
    /\ \E n \in line_nets[l] : Cardinality(Owners(n)) > 1

\* C8: remove_line(L) takes L out of every other line's peer set and changes
\* nothing else of any remaining line's peer set; a remaining line is
\* conflicting afterwards exactly when a peer other than L remains.
C8_RemoveLineFrame ==
  [][last'.op = "remove_line" =>
       \A a \in Lines \ {last'.line} :
         /\ GetConflictingLines(StoreAfter, a)
              = GetConflictingLines(Store, a) \ {last'.line}
         /\ IsConflicting(StoreAfter, a)
              <=> GetConflictingLines(Store, a) \ {last'.line} # {}]_vars

\* a line that shared a net with two other lines was removed; the two still
\* conflict with each other and not with the removed line
C8_Witness ==
  /\ last.op = "remove_line"
  /\ \E a, b \in DOMAIN line_nets :
       /\ a # b
       /\ before \cap line_nets[a] \cap line_nets[b] # {}
       /\ IsConflicting(Store, a) /\ IsConflicting(Store, b)
       /\ GetConflictingLines(Store, a) = {b}
       /\ GetConflictingLines(Store, b) = {a}

\* line l is nowhere in the index and in no answer
Gone(l) ==
  /\ l \notin DOMAIN line_nets
  /\ \A n \in DOMAIN net_lines : l \notin net_lines[n]
  /\ ~IsConflicting(Store, l)
  /\ \A m \in Lines : l \notin GetConflictingLines(Store, m)

\* the data of the last detector update_line resolved to no net
ResolvedToNothing ==
  /\ last.op = "det_update_line"
  /\ doc[last.line] # None
  /\ ResolveLineNets(doc[last.line]) = {}

\* C9: no index mutation raises; after store.update_line with an empty net
\* set, after remove_line (also of a line that is not indexed) and after the
\* detector's update_line with None, the line is absent from both maps, is
\* not conflicting and is no line's peer.
C9_MutationsNeverRaise ==
  /\ ~last.raised
  /\ ResolvedToNothing => Gone(last.line)
  /\ last.op = "det_remove_line" => Gone(last.line)
  /\ (last.op = "det_update_line" /\ doc[last.line] = None) => Gone(last.line)

\* a line was updated to data that resolves to no net, so the store's
\* update_line ran with the empty set, while the other lines conflict
C9_Witness ==
  /\ ResolvedToNothing
  /\ Cardinality(DOMAIN line_nets) >= 2
  /\ \A l \in DOMAIN line_nets : IsConflicting(Store, l)

\* C10: after rebuild(lines) the index holds exactly the lines that carry
\* data resolving to a non-empty net set, each with exactly its resolved
\* nets, and nothing else.
C10_RebuildExact ==
  last.op = "rebuild" =>
    LET carries(l) == doc[l] \in DataSet
    IN /\ \A l \in Lines :
            l \in DOMAIN line_nets
              <=> (carries(l) /\ ResolveLineNets(doc[l]) # {})
       /\ \A l \in DOMAIN line_nets : line_nets[l] = ResolveLineNets(doc[l])
       /\ DOMAIN net_lines = UNION {line_nets[l] : l \in DOMAIN line_nets}
       /\ \A n \in DOMAIN net_lines : net_lines[n] = Owners(n)

\* a document with a line without data and a line resolving to no net was
\* rebuilt, and a line of it is indexed
C10_Witness ==
  /\ last.op = "rebuild"
  /\ \E l \in Lines : doc[l] = None
  /\ \E l \in Lines : doc[l] \in DataSet /\ ResolveLineNets(doc[l]) = {}
  /\ Cardinality(DOMAIN line_nets) >= 1
  /\ DOMAIN net_lines # {}

(***************************************************************************)
(* Alias resolution (SpecAlias)                                            *)
(***************************************************************************)
\* _build_template_data has returned
Built == build.phase = "done"

\* C11: the alias map a template is given is flat: every value is a key
\* that maps to itself, so alias_map[alias_map[k]] = alias_map[k], and
\* canonical_nets is exactly the set of keys that map to themselves.  The
\* map does not depend on the order the set child_canonical is walked in.
C11_AliasMapFlat ==
  Built =>
    /\ \A k \in DOMAIN build.map :
         /\ build.map[k] \in DOMAIN build.map
         /\ build.map[build.map[k]] = build.map[k]
    /\ build.canonical_nets = {k \in DOMAIN build.map : build.map[k] = k}
    /\ build.map = SpiceData[build.conn][build.tpl].map
    /\ build.canonical_nets = SpiceData[build.conn][build.tpl].canonical_nets

\* a template with instances below instances is built and a net two levels
\* down is an alias of another net
C11_Witness ==
  /\ Built
  /\ \E k \in DOMAIN build.map : Depth(k) >= 2 /\ build.map[k] # k

\* the preference tuple of a name in the template being built
BuildPreference(name) == Preference(Elems(BuildDefn.ports), name)

\* the iteration just taken called _merge(child, parent) on alias_map
\* "registered" and found two distinct roots: afterwards the root with the
\* smaller preference tuple is still a root, the other root points at it
\* and no other entry has changed
MergedRoots(registered, child, parent) ==
  LET pc == Find(registered, parent)
      cc == Find(registered, child)
  IN pc # cc =>
       \E winner, loser \in {pc, cc} :
         /\ winner # loser
         /\ PreferenceLess(BuildPreference(winner), BuildPreference(loser))
         /\ Find(build'.map, winner) = winner
         /\ build'.map[loser] = winner
         /\ \A k \in DOMAIN registered \ {loser} : build'.map[k] = registered[k]

\* C12: a _merge of two distinct roots keeps as root the one whose
\* preference tuple is lexicographically smaller and re-points the other
\* at it, and so, once the call has returned, no member of an alias class
\* has a smaller preference tuple than the canonical name of the class.
C12_MergeKeepsPreferred ==
  [][/\ build'.merged.called =>
          MergedRoots(DictSet(build.map, build'.merged.child, build'.merged.child),
                      build'.merged.child, build'.merged.parent)
     /\ build'.phase = "done" =>
          \A k \in DOMAIN build'.map :
            ~PreferenceLess(BuildPreference(k), BuildPreference(build'.map[k]))]_vars

\* a _merge has just joined two classes of hierarchical names: the deeper
\* name was re-pointed at the shallower one
C12_Witness ==
  /\ build.phase \in {"canon", "alias"}
  /\ build.merged.called
  /\ build.map[build.merged.child] # build.merged.child
  /\ Depth(build.map[build.merged.child]) = 1
  /\ Depth(build.merged.child) = 2

\* C13: in every template, whether it has instances or not, every local
\* net (a name without "/") is a key of the alias map and is its own
\* canonical name.
C13_LocalNetsCanonical ==
  Built =>
    /\ BuildDefn.local_nets \subseteq DOMAIN build.map
    /\ \A k \in DOMAIN build.map : Depth(k) = 0 => build.map[k] = k
    /\ BuildDefn.local_nets \subseteq build.canonical_nets

\* a template with instances is built, and a local net that is not a port
\* is the canonical name of a net of an instance
C13_Witness ==
  /\ Built
  /\ BuildDefn.instances # <<>>
  /\ \E k, l \in DOMAIN build.map :
       /\ Depth(l) = 0
       /\ l \notin Elems(BuildDefn.ports)
       /\ Depth(k) > 0
       /\ build.map[k] = l

(***************************************************************************)
(* Canonical ids (SpecResolve)                                             *)
(***************************************************************************)
\* net_id_map and id_net_map of service self are a bijection between the
\* canonical nets of the top cell and 0..n-1, inverse to each other and
\* increasing with the name
IdTableBijective(self) ==
  LET names == self.canonical_nets[SpiceTopCell]
      n == Cardinality(names)
  IN /\ DOMAIN self.net_id_map = names
     /\ DOMAIN self.id_net_map = 0..(n - 1)
     /\ \A name \in names : self.id_net_map[self.net_id_map[name]] = name
     /\ \A i \in 0..(n - 1) : self.net_id_map[self.id_net_map[i]] = i
     /\ \A a, b \in names :
          StrLess(a, b) => self.net_id_map[a] < self.net_id_map[b]

\* C14: the id table is a bijection between the canonical net names of the
\* top cell and 0..n-1, in sorted name order, name-to-id and id-to-name
\* being inverses; no query changes either map, and canonical_net_name
\* reads the id-to-name map.
C14_IdTableBijection ==
  /\ []IdTableBijective(nqs)
  /\ [][/\ nqs'.net_id_map = nqs.net_id_map
        /\ nqs'.id_net_map = nqs.id_net_map
        /\ nqs'.last.op = "canonical_net_name" =>
             LET net_id == nqs'.last.args
             IN nqs'.last.result.value =
                  IF net_id \in DOMAIN nqs.id_net_map THEN nqs.id_net_map[net_id]
                  ELSE NoName]_vars

\* after a resolve_to_canonical_ids call that filled both caches,
\* canonical_net_name names the first id: a net inside an instance
C14_Witness ==
  /\ nqs.open
  /\ DOMAIN nqs.top_cache # {}
  /\ nqs.last.op = "canonical_net_name"
  /\ nqs.last.args = 0
  /\ nqs.last.result.value # NoName
  /\ Depth(nqs.last.result.value) >= 1

RECURSIVE PathsTo(_, _)
\* the instantiation paths of template t: the chains of instance names
\* that lead from the top cell to an instance of t, joined by "/"; the
\* empty chain leads to the top cell itself
PathsTo(subckts, t) ==
  IF t = SpiceTopCell THEN {<<>>}
  ELSE UNION {UNION {{IF p = <<>> THEN subckts[parent].instances[i].inst_name
                      ELSE HierPath(p, subckts[parent].instances[i].inst_name) :
                        p \in PathsTo(subckts, parent)} :
                     i \in {j \in DOMAIN subckts[parent].instances :
                              subckts[parent].instances[j].subckt_name = t}} :
              parent \in DOMAIN subckts}

\* C15: what _resolve_tpl_net_to_top_ids holds for a template T other than
\* the top cell and a canonical net c of T is exactly the set of the ids of
\* alias_map_of_top[P/c] over all instantiation paths P of T; for the top
\* cell it is the single id of c.
C15_TopIdsOverPaths ==
  nqs.open =>
    \A pair \in DOMAIN nqs.top_cache :
      LET tpl == pair[1]
          net == pair[2]
          top_alias == nqs.alias_maps[SpiceTopCell]
      IN /\ net \in nqs.canonical_nets[tpl]
         /\ nqs.top_cache[pair] =
              IF tpl = SpiceTopCell THEN {nqs.net_id_map[net]}
              ELSE {nqs.net_id_map[top_alias[HierPath(path, net)]] :
                      path \in PathsTo(Subckts(nqs.conn), tpl)}

\* a net of d, which is reached by four paths through b and c, has been
\* resolved, and the paths led to more than one top-level net
C15_Witness ==
  /\ nqs.open
  /\ Cardinality(PathsTo(Subckts(nqs.conn), "d")) = 4
  /\ \E pair \in DOMAIN nqs.top_cache :
       /\ pair[1] = "d"
       /\ Cardinality(nqs.top_cache[pair]) >= 2

\* the argument tuple of an exact query for net of template
Exact(template, net) == <<template, net, FALSE, FALSE>>

\* both argument tuples have been resolved
BothResolved(p, q) == {p, q} \subseteq DOMAIN nqs.ids_cache

\* C16: D:n3, a port of an inner template, and B:n1, the port of an
\* enclosing template it is connected to through a chain of instances,
\* resolve to id sets that intersect; D:gd1, an internal net of an inner
\* template, and mycell:in2, a port of the top cell, resolve to disjoint
\* id sets.
C16_HierarchicalOverlap ==
  nqs.open =>
    /\ BothResolved(Exact(<<"D">>, <<"n", "3">>), Exact(<<"B">>, <<"n", "1">>)) =>
         nqs.ids_cache[Exact(<<"D">>, <<"n", "3">>)]
           \cap nqs.ids_cache[Exact(<<"B">>, <<"n", "1">>)] # {}
    /\ BothResolved(Exact(<<"D">>, <<"g", "d", "1">>),
                    Exact(<<"m", "y", "c", "e", "l", "l">>, <<"i", "n", "2">>)) =>
         /\ nqs.ids_cache[Exact(<<"D">>, <<"g", "d", "1">>)] # {}
         /\ nqs.ids_cache[Exact(<<"m", "y", "c", "e", "l", "l">>, <<"i", "n", "2">>)] # {}
         /\ nqs.ids_cache[Exact(<<"D">>, <<"g", "d", "1">>)]
              \cap nqs.ids_cache[Exact(<<"m", "y", "c", "e", "l", "l">>,
                                       <<"i", "n", "2">>)] = {}

\* D:n3 and B:n1 have both been resolved, in a netlist where the two
\* instances of b put n1 on different nets of the top cell
C16_Witness ==
  /\ nqs.open
  /\ BothResolved(Exact(<<"D">>, <<"n", "3">>), Exact(<<"B">>, <<"n", "1">>))
  /\ Cardinality(nqs.ids_cache[Exact(<<"B">>, <<"n", "1">>)]) = 2
  /\ nqs.last.op = "resolve_to_canonical_ids"

\* the patterns of argument tuple q that are flagged as regular expressions
\* are well-formed
WellFormed(q) == (q[3] => ~ReError(q[1])) /\ (q[4] => ~ReError(q[2]))

\* template t is one the template pattern of argument tuple q stands for
TemplateMatches(q, t) ==
  LET pattern == IF q[1] = <<>> THEN TemplateChars[SpiceTopCell] ELSE q[1]
  IN IF q[3] THEN ReSearch(pattern, TemplateChars[t])
     ELSE TemplateChars[t] = LowerStr(pattern)

\* net is a net of template t that the net pattern of argument tuple q
\* stands for: a canonical net the expression finds, or the name or an
\* alias of a net
NetMatches(q, t, net) ==
  IF q[4] THEN net \in nqs.canonical_nets[t] /\ ReSearch(q[2], net)
  ELSE net \in DOMAIN nqs.alias_maps[t] /\ net = LowerStr(q[2])

\* C17: resolve_to_canonical_ids returns the empty set and raises nothing
\* when the net pattern is empty, when no template matches the template
\* pattern, when no net of a matching template matches the net pattern, and
\* when no matching template has an instantiation path from the top cell.
C17_EmptyNotError ==
  (/\ nqs.open
   /\ nqs.last.op = "resolve_to_canonical_ids"
   /\ WellFormed(nqs.last.args)
   /\ LET q == nqs.last.args
          matching == {t \in SpiceTemplates : TemplateMatches(q, t)}
      IN \/ q[2] = <<>>
         \/ matching = {}
         \/ \A t \in matching : \A net \in DOMAIN nqs.alias_maps[t] :
              ~NetMatches(q, t, net)
         \/ \A t \in matching : PathsTo(Subckts(nqs.conn), t) = {})
  => nqs.last.result = Ok({})

\* a net of a template that is parsed but instantiated nowhere has just
\* been resolved by a call that ran the body
C17_Witness ==
  /\ nqs.open
  /\ nqs.last.op = "resolve_to_canonical_ids"
  /\ ~nqs.last.hit
  /\ LET q == nqs.last.args
     IN /\ q[2] # <<>>
        /\ \E t \in SpiceTemplates :
             /\ TemplateMatches(q, t)
             /\ NetMatches(q, t, LowerStr(q[2]))
             /\ PathsTo(Subckts(nqs.conn), t) = {}
  /\ nqs.last.result = Ok({})

GivenInvalidRegex ==
  /\ nqs.open
  /\ LET q == nqs.last.args
     IN \/ /\ nqs.last.op = "get_matching_templates"
           /\ q[2] /\ ReError(q[1])
        \/ /\ nqs.last.op \in {"find_matches", "resolve_to_canonical_ids"}
           /\ (q[3] /\ ReError(q[1])) \/ (q[4] /\ ReError(q[2]))
        \/ /\ nqs.last.op = "match_regex"
           /\ ReError(q[2])

\* C19: every matching call that is given a structurally invalid regular
\* expression (get_matching_templates with is_regex, find_matches and
\* resolve_to_canonical_ids with a regex flag, match_regex for any
\* templates list) raises to its caller and does not return an empty
\* result.  The code does not do this: the service's calls return an empty
\* result, and match_regex raises only for a non-empty templates list.
C19_InvalidRegexRaises == GivenInvalidRegex => nqs.last.result.raised

\* a call of the service that was given a pattern that does not compile
\* has returned an empty result
C19_Witness ==
  /\ GivenInvalidRegex
  /\ nqs.last.op = "get_matching_templates"
  /\ nqs.last.result = Ok({})

\* re.search finds the expression in the item; an expression that does not
\* compile finds nothing
Matches(expr, item) == ~ReError(expr) /\ ReSearch(expr, item)

\* the templates the template pattern of argument tuple q stands for
MatchedTemplates(q) ==
  LET pattern == IF q[1] = <<>> THEN TemplateChars[SpiceTopCell] ELSE q[1]
  IN {t \in SpiceTemplates :
        IF q[3] THEN Matches(pattern, TemplateChars[t])
        ELSE TemplateChars[t] = LowerStr(pattern)}

\* the rows (template, net) of the matched templates that the net
\* expression of argument tuple q finds
MatchedRows(q) ==
  {row \in NetRows(nqs, MatchedTemplates(q)) : Matches(q[2], row[2])}

MaxIndex == 2

\* the largest number of names in a list given to collapse_bus_notation
MaxNames == 4

\* Python's None where an Optional[int] or Optional[str] is expected; a
\* value v is <<v>>
NoValue == <<>>

IsDigit(ch) == \E i \in DOMAIN Digits : Digits[i] = ch

\* int(digits) on a run of decimal digits
RECURSIVE ParseInt(_)
ParseInt(digits) ==
  IF digits = <<>> THEN 0
  ELSE LET last_digit == digits[Len(digits)]
       IN 10 * ParseInt(SubSeq(digits, 1, Len(digits) - 1))
          + (CHOOSE i \in DOMAIN Digits : Digits[i] = last_digit) - 1

\* str(n) for n >= 0
RECURSIVE DecStr(_)
DecStr(n) ==
  IF n < 10 THEN <<Digits[n + 1]>>
  ELSE DecStr(n \div 10) \o <<Digits[(n % 10) + 1]>>

\* f"[{lo}{sep}{hi}]"
RangeText(lo, sep, hi) ==
  <<"[">> \o DecStr(lo) \o <<sep>> \o DecStr(hi) \o <<"]">>

\* f"[{i}]"
IndexText(i) == <<"[">> \o DecStr(i) \o <<"]">>

\* the length of the longest run of digits of str that starts at position i
RECURSIVE DigitRun(_, _)
DigitRun(str, i) ==
  IF i > Len(str) \/ ~IsDigit(str[i]) THEN 0 ELSE 1 + DigitRun(str, i + 1)

\* BUS_PATTERN.match(str, i - 1): \[(\d+)[:-](\d+)\] at position i
BusPatternAt(str, i) ==
  LET n1 == DigitRun(str, i + 1)
      sep == i + 1 + n1
      n2 == DigitRun(str, sep + 1)
      stop == sep + 1 + n2
  IN IF /\ i \in DOMAIN str
        /\ str[i] = "["
        /\ n1 >= 1
        /\ sep <= Len(str)
        /\ str[sep] \in {":", "-"}
        /\ n2 >= 1
        /\ stop <= Len(str)
        /\ str[stop] = "]"
     THEN [found |-> TRUE, start |-> i, stop |-> stop,
           group1 |-> SubSeq(str, i + 1, sep - 1),
           group2 |-> SubSeq(str, sep + 1, stop - 1)]
     ELSE [found |-> FALSE, start |-> 0, stop |-> 0,
           group1 |-> <<>>, group2 |-> <<>>]

\* BUS_PATTERN.search(str): the leftmost match
BusPatternSearch(str) ==
  LET starts == {i \in DOMAIN str : BusPatternAt(str, i).found}
  IN IF starts = {} THEN BusPatternAt(str, Len(str) + 1)
     ELSE BusPatternAt(str, CHOOSE i \in starts : \A j \in starts : i <= j)

\* has_bus_notation of the two query services
HasBusRange(net_name) == BusPatternSearch(net_name).found

\* expand_bus_notation returned names
Expanded(names) ==
  [names |-> names, raised |-> FALSE,
   error |-> [limit |-> NoValue, pattern |-> NoValue]]

\* ValueError(f"Bus expansion exceeded limit ({limit}) for pattern '{pattern}'")
ExpansionError(limit, pattern) ==
  [names |-> <<>>, raised |-> TRUE,
   error |-> [limit |-> <<limit>>, pattern |-> pattern]]

\* a mutation of ExpansionError: the message names the pattern being expanded
\* when the limit was met
ExpansionErrorCurrent(limit, pattern, current_pattern) ==
  ExpansionError(limit, current_pattern)

\* the exception _expand raises; pattern is the argument of
\* expand_bus_notation
ExpandRaise(limit, pattern, current_pattern) ==
  ExpansionError(limit, pattern)

\* _expand(current_pattern) entered with count[0] = count; the result carries
\* the names returned and count[0] at the return, or the exception
RECURSIVE ExpandInner(_, _, _, _)
RECURSIVE ExpandLoop(_, _, _, _, _, _, _)
ExpandInner(current_pattern, count, pattern, max_expansions) ==
  IF current_pattern = <<>> \/ ~HasBusRange(current_pattern)
  THEN IF max_expansions # NoValue
       THEN IF count + 1 > max_expansions[1]
            THEN [out |-> ExpandRaise(max_expansions[1], pattern,
                                      current_pattern),
                  count |-> count + 1]
            ELSE [out |-> Expanded(<<current_pattern>>), count |-> count + 1]
       ELSE [out |-> Expanded(<<current_pattern>>), count |-> count]
  ELSE LET match == BusPatternSearch(current_pattern)
           g1 == ParseInt(match.group1)
           g2 == ParseInt(match.group2)
           start == IF g1 > g2 THEN g2 ELSE g1
           end == IF g1 > g2 THEN g1 ELSE g2
           prefix == SubSeq(current_pattern, 1, match.start - 1)
           suffix == SubSeq(current_pattern, match.stop + 1,
                            Len(current_pattern))
       IN ExpandLoop(prefix, suffix, start, end, count, pattern,
                     max_expansions)

\* for i in range(i, end + 1): expanded_values.extend(_expand(...))
ExpandLoop(prefix, suffix, i, end, count, pattern, max_expansions) ==
  IF i > end THEN [out |-> Expanded(<<>>), count |-> count]
  ELSE LET head == ExpandInner(prefix \o IndexText(i) \o suffix,
                               count, pattern, max_expansions)
       IN IF head.out.raised THEN head
          ELSE LET rest == ExpandLoop(prefix, suffix, i + 1, end, head.count,
                                      pattern, max_expansions)
               IN IF rest.out.raised THEN rest
                  ELSE [out |-> Expanded(head.out.names \o rest.out.names),
                        count |-> rest.count]

\* a mutation of ExpandBusNotation: the last name is left out of the list
ExpandBusNotationHalfOpen(pattern, max_expansions) ==
  IF max_expansions # NoValue /\ max_expansions[1] <= 0 THEN Expanded(<<>>)
  ELSE IF pattern = <<>> \/ ~HasBusRange(pattern)
       THEN Expanded(<<pattern>>)
       ELSE LET full == ExpandInner(pattern, 0, pattern, max_expansions).out
            IN IF full.raised THEN full
               ELSE Expanded(SubSeq(full.names, 1, Len(full.names) - 1))

\* expand_bus_notation(pattern, max_expansions); max_expansions is None
\* (NoValue) or <<n>> for the int n
ExpandBusNotation(pattern, max_expansions) ==
  IF max_expansions # NoValue /\ max_expansions[1] <= 0 THEN Expanded(<<>>)
  ELSE IF pattern = <<>> \/ ~HasBusRange(pattern)
       THEN Expanded(<<pattern>>)
       ELSE ExpandInner(pattern, 0, pattern, max_expansions).out

\* INDEX_PATTERN.match(str, i - 1): \[(\d+)\] at position i
IndexPatternAt(str, i) ==
  LET n1 == DigitRun(str, i + 1)
      stop == i + 1 + n1
  IN IF /\ i \in DOMAIN str
        /\ str[i] = "["
        /\ n1 >= 1
        /\ stop <= Len(str)
        /\ str[stop] = "]"
     THEN [found |-> TRUE, start |-> i, stop |-> stop,
           group1 |-> SubSeq(str, i + 1, stop - 1)]
     ELSE [found |-> FALSE, start |-> 0, stop |-> 0, group1 |-> <<>>]

\* INDEX_PATTERN.search(str): the leftmost match
IndexPatternSearch(str) ==
  LET starts == {i \in DOMAIN str : IndexPatternAt(str, i).found}
  IN IF starts = {} THEN IndexPatternAt(str, Len(str) + 1)
     ELSE IndexPatternAt(str, CHOOSE i \in starts : \A j \in starts : i <= j)

\* BUS_PATTERN.findall(name): the (start, end) groups of the matches, left
\* to right, each match sought after the end of the one before
RECURSIVE BusFindAll(_)
BusFindAll(name) ==
  LET match == BusPatternSearch(name)
  IN IF ~match.found THEN <<>>
     ELSE <<<<match.group1, match.group2>>>>
          \o BusFindAll(SubSeq(name, match.stop + 1, Len(name)))

\* INDEX_PATTERN.findall(name)
RECURSIVE IndexFindAll(_)
IndexFindAll(name) ==
  LET match == IndexPatternSearch(name)
  IN IF ~match.found THEN <<>>
     ELSE <<match.group1>>
          \o IndexFindAll(SubSeq(name, match.stop + 1, Len(name)))

\* BUS_PATTERN.sub("[]", name)
RECURSIVE BusSub(_)
BusSub(name) ==
  LET match == BusPatternSearch(name)
  IN IF ~match.found THEN name
     ELSE SubSeq(name, 1, match.start - 1) \o <<"[", "]">>
          \o BusSub(SubSeq(name, match.stop + 1, Len(name)))

\* INDEX_PATTERN.sub("[]", structure)
RECURSIVE IndexSub(_)
IndexSub(structure) ==
  LET match == IndexPatternSearch(structure)
  IN IF ~match.found THEN structure
     ELSE SubSeq(structure, 1, match.start - 1) \o <<"[", "]">>
          \o IndexSub(SubSeq(structure, match.stop + 1, Len(structure)))

\* a mutation of ReplaceFirst: the last placeholder is the one replaced
ReplaceLast(result, dim) ==
  LET starts == {i \in 1 .. Len(result) - 1 :
                   result[i] = "[" /\ result[i + 1] = "]"}
      at == CHOOSE i \in starts : \A j \in starts : i >= j
  IN IF starts = {} THEN result
     ELSE SubSeq(result, 1, at - 1) \o dim
          \o SubSeq(result, at + 2, Len(result))

\* result.replace("[]", dim, 1)
ReplaceFirst(result, dim) ==
  LET starts == {i \in 1 .. Len(result) - 1 :
                   result[i] = "[" /\ result[i + 1] = "]"}
      at == CHOOSE i \in starts : \A j \in starts : i <= j
  IN IF starts = {} THEN result
     ELSE SubSeq(result, 1, at - 1) \o dim
          \o SubSeq(result, at + 2, Len(result))

\* the indices collapse_bus_notation reads from one normalized name
NameIndices(name) ==
  LET bus_indices == BusFindAll(name)
      single == IndexFindAll(name)
  IN IF bus_indices # <<>>
     THEN [k \in 1 .. 2 * Len(bus_indices) |->
             ParseInt(bus_indices[(k + 1) \div 2][2 - (k % 2)])]
     ELSE [k \in DOMAIN single |-> ParseInt(single[k])]

\* the structure collapse_bus_notation compares: ranges, then indices,
\* replaced by the placeholder "[]"
NameStructure(name) == IndexSub(BusSub(name))

\* the text of one collapsed dimension: "[v]" or "[lo:hi]"
CollapsedDim(values) ==
  LET lo == CHOOSE v \in values : \A w \in values : v <= w
      hi == CHOOSE v \in values : \A w \in values : v >= w
  IN IF lo = hi THEN IndexText(lo) ELSE RangeText(lo, ":", hi)

\* values == list(range(min(values), max(values) + 1))
Contiguous(values) ==
  LET lo == CHOOSE v \in values : \A w \in values : v <= w
      hi == CHOOSE v \in values : \A w \in values : v >= w
  IN values = lo .. hi

\* the product of the sizes of the sets of a sequence
RECURSIVE SizeProduct(_)
SizeProduct(sets) ==
  IF sets = <<>> THEN 1
  ELSE Cardinality(sets[1]) * SizeProduct(Tail(sets))

\* for dim in collapsed_dims: result = result.replace("[]", dim, 1)
RECURSIVE Reconstruct(_, _)
Reconstruct(result, collapsed_dims) ==
  IF collapsed_dims = <<>> THEN result
  ELSE Reconstruct(ReplaceFirst(result, collapsed_dims[1]),
                   Tail(collapsed_dims))

\* a mutation of CollapseBusNotation: the count of the names is not compared
\* with the size of the product
CollapseBusNotationNoCoverage(net_names) ==
  LET normalized_names == [i \in DOMAIN net_names |-> LowerStr(net_names[i])]
      index_lists == [i \in DOMAIN net_names |->
                        NameIndices(normalized_names[i])]
      template == NameStructure(normalized_names[1])
      dimensions == [d \in DOMAIN index_lists[1] |->
                       {index_lists[i][d] : i \in DOMAIN index_lists}]
  IN IF net_names = <<>> THEN NoValue
     ELSE IF Len(normalized_names) = 1 THEN <<normalized_names[1]>>
     ELSE IF \E i \in DOMAIN normalized_names :
               NameStructure(normalized_names[i]) # template
          THEN NoValue
     ELSE IF index_lists[1] = <<>>
          THEN IF Cardinality(Elems(normalized_names)) = 1
               THEN <<normalized_names[1]>>
               ELSE NoValue
     ELSE IF \E i \in DOMAIN index_lists :
               Len(index_lists[i]) # Len(index_lists[1])
          THEN NoValue
     ELSE IF \E d \in DOMAIN dimensions : ~Contiguous(dimensions[d])
          THEN NoValue
     ELSE <<Reconstruct(template,
                        [d \in DOMAIN dimensions |->
                           CollapsedDim(dimensions[d])])>>

\* collapse_bus_notation(net_names): None (NoValue) or <<pattern>>
CollapseBusNotation(net_names) ==
  LET normalized_names == [i \in DOMAIN net_names |-> LowerStr(net_names[i])]
      index_lists == [i \in DOMAIN net_names |->
                        NameIndices(normalized_names[i])]
      template == NameStructure(normalized_names[1])
      dimensions == [d \in DOMAIN index_lists[1] |->
                       {index_lists[i][d] : i \in DOMAIN index_lists}]
  IN IF net_names = <<>> THEN NoValue
     ELSE IF Len(normalized_names) = 1 THEN <<normalized_names[1]>>
     ELSE IF \E i \in DOMAIN normalized_names :
               NameStructure(normalized_names[i]) # template
          THEN NoValue
     ELSE IF index_lists[1] = <<>>
          THEN IF Cardinality(Elems(normalized_names)) = 1
               THEN <<normalized_names[1]>>
               ELSE NoValue
     ELSE IF \E i \in DOMAIN index_lists :
               Len(index_lists[i]) # Len(index_lists[1])
          THEN NoValue
     ELSE IF \E d \in DOMAIN dimensions : ~Contiguous(dimensions[d])
          THEN NoValue
     ELSE IF SizeProduct(dimensions) # Cardinality(Elems(normalized_names))
          THEN NoValue
     ELSE <<Reconstruct(template,
                        [d \in DOMAIN dimensions |->
                           CollapsedDim(dimensions[d])])>>

(***************************************************************************)
(* The calls of the bus notation helpers: bus holds the arguments of one   *)
(* call, chosen at the start, and the call is one step that adds its       *)
(* outcome.                                                                *)
(***************************************************************************)

BusIndexes == 0 .. MaxIndex

\* the pattern of tests/test_nqs.py
Net02 == <<"n", "e", "t">> \o RangeText(0, ":", 2)

\* patterns with one range, with two ranges, and patterns with no range, an
\* index next to a range, indices with leading zeros, a range not closed
ExpandPatterns ==
  {<<"n">> \o RangeText(lo, sep, hi) :
     lo \in BusIndexes, hi \in BusIndexes, sep \in {":", "-"}}
  \cup {<<"n">> \o RangeText(lo[1], ":", hi[1]) \o <<"x">>
          \o RangeText(lo[2], ":", hi[2]) :
        lo \in BusIndexes \X BusIndexes, hi \in BusIndexes \X BusIndexes}
  \cup {Net02, <<>>, <<"n">>, <<"n">> \o IndexText(1),
        <<"n">> \o IndexText(1) \o RangeText(0, ":", MaxIndex),
        <<"n", "[", "0", "0", ":", "0", "1", "]">>,
        <<"n", "[", "0", ":", "1">>}

\* the caps: None, and the ints around every size an expansion can have
ExpandCaps ==
  {NoValue} \cup {<<n>> : n \in -1 .. (MaxIndex + 1) * (MaxIndex + 1) + 1}

\* the arguments of a call of expand_bus_notation that has not run yet
ExpandArgs(pattern, max_expansions) ==
  [op |-> "expand", pattern |-> pattern, cap |-> max_expansions,
   names |-> <<>>, done |-> FALSE, result |-> NoValue]

\* the arguments of a call of collapse_bus_notation that has not run yet
CollapseArgs(net_names) ==
  [op |-> "collapse", pattern |-> <<>>, cap |-> NoValue,
   names |-> net_names, done |-> FALSE, result |-> NoValue]

\* the caller runs expand_bus_notation(pattern, max_expansions)
ExpandCall ==
  /\ bus.op = "expand"
  /\ ~bus.done
  /\ bus' = [bus EXCEPT !.done = TRUE,
                        !.result = ExpandBusNotation(bus.pattern, bus.cap)]
  /\ UNCHANGED <<line_nets, net_lines, doc, last, before, build, nqs,
                 parse, db, document, session,
                 cache, pure, ctor, service>>

\* the names lists are made of: the names of a row and of a 2 x 2 rectangle,
\* a name of another skeleton, a name without index, names in upper case,
\* an index with a leading zero, names with an empty bracket pair
CollapseNames ==
  {<<"n">> \o IndexText(i) : i \in BusIndexes}
  \cup {<<"n">> \o IndexText(i) \o <<"x">> \o IndexText(j) :
          i \in 0 .. 1, j \in 0 .. 1}
  \cup {<<"m">> \o IndexText(0), <<"n">>,
        <<"N">> \o IndexText(0), <<"N">> \o IndexText(1),
        <<"n", "[", "0", "1", "]">>,
        <<"n", "[", "]">> \o IndexText(0), <<"n", "[", "]">> \o IndexText(1)}

\* the lists given to collapse_bus_notation: the names of a set in one order
\* and in the reverse order, and with the first name given twice
CollapseLists ==
  LET sets == {S \in SUBSET CollapseNames : Cardinality(S) <= MaxNames}
      forward == {SomeOrder(S) : S \in sets}
      backward == {[i \in DOMAIN o |-> o[Len(o) + 1 - i]] : o \in forward}
      twice == {o \o <<o[1]>> : o \in forward \ {<<>>}}
  IN forward \cup backward \cup twice

InitBus ==
  /\ StoreInit
  /\ build = NoBuild
  /\ nqs = NoService
  /\ bus \in {ExpandArgs(pattern, max_expansions) :
                pattern \in ExpandPatterns, max_expansions \in ExpandCaps}
              \cup {CollapseArgs(net_names) : net_names \in CollapseLists}
  /\ parse = NoParse
  /\ db = NoDb
  /\ document = NoDocument
  /\ session = NoSession
  /\ cache = NoCache
  /\ pure = NoPure
  /\ ctor = NoCtor
  /\ service = NoDocumentService

\* the caller runs collapse_bus_notation(net_names)
CollapseCall ==
  /\ bus.op = "collapse"
  /\ ~bus.done
  /\ bus' = [bus EXCEPT !.done = TRUE,
                        !.result = CollapseBusNotation(bus.names)]
  /\ UNCHANGED <<line_nets, net_lines, doc, last, before, build, nqs,
                 parse, db, document, session,
                 cache, pure, ctor, service>>

NextBus ==
  \/ ExpandCall
  \/ CollapseCall

SpecBus == InitBus /\ [][NextBus]_vars

(***************************************************************************)
(* Properties of the bus notation helpers, checked under SpecBus.          *)
(***************************************************************************)

\* the ranges of a pattern, left to right: the bounds as written
RECURSIVE RangesOf(_)
RangesOf(pattern) ==
  LET match == BusPatternSearch(pattern)
  IN IF ~match.found THEN <<>>
     ELSE <<[lo |-> ParseInt(match.group1), hi |-> ParseInt(match.group2)]>>
          \o RangesOf(SubSeq(pattern, match.stop + 1, Len(pattern)))

\* the texts around the ranges of a pattern: one more than its ranges
RECURSIVE TextsOf(_)
TextsOf(pattern) ==
  LET match == BusPatternSearch(pattern)
  IN IF ~match.found THEN <<pattern>>
     ELSE <<SubSeq(pattern, 1, match.start - 1)>>
          \o TextsOf(SubSeq(pattern, match.stop + 1, Len(pattern)))

Min(a, b) == IF a < b THEN a ELSE b

Max(a, b) == IF a < b THEN b ELSE a

\* the number of integers of a range
RangeSize(range) == Max(range.lo, range.hi) - Min(range.lo, range.hi) + 1

\* the number of names of the product of the ranges from position j on
RECURSIVE ProductSize(_, _)
ProductSize(ranges, j) ==
  IF j > Len(ranges) THEN 1
  ELSE RangeSize(ranges[j]) * ProductSize(ranges, j + 1)

\* the size of the full expansion of a pattern
FullSize(pattern) == ProductSize(RangesOf(pattern), 1)

\* the index the m-th name of the product (m from 0) has for range j, when
\* the first range varies slowest
ProductIndex(ranges, j, m) ==
  Min(ranges[j].lo, ranges[j].hi)
    + ((m \div ProductSize(ranges, j + 1)) % RangeSize(ranges[j]))

\* the m-th name of the product: the texts with the indices between them
RECURSIVE ProductName(_, _, _, _)
ProductName(texts, ranges, j, m) ==
  IF j > Len(ranges) THEN texts[j]
  ELSE texts[j] \o IndexText(ProductIndex(ranges, j, m))
       \o ProductName(texts, ranges, j + 1, m)

\* the Cartesian product of the ranges of a pattern, as a list
Product(pattern) ==
  [m \in 1 .. FullSize(pattern) |->
     ProductName(TextsOf(pattern), RangesOf(pattern), 1, m - 1)]

\* an expand call that has returned or raised
ExpandDone == bus.op = "expand" /\ bus.done

\* the full expansion fits the cap of the call, or there is no cap
Fits == bus.cap = NoValue \/ FullSize(bus.pattern) <= bus.cap[1]

\* C21: when the full expansion of a pattern fits the cap (or there is no
\* cap), expand returns exactly the Cartesian product of the ranges of the
\* pattern, each range running from min(lo, hi) to max(lo, hi) inclusive,
\* the first range varying slowest, and no name twice; net[0:2] gives
\* net[0], net[1], net[2] in that order.
C21_ExpandIsProduct ==
  (ExpandDone /\ Fits) =>
    /\ ~bus.result.raised
    /\ bus.result.names = Product(bus.pattern)
    /\ \A i, j \in DOMAIN bus.result.names :
         bus.result.names[i] = bus.result.names[j] => i = j
    /\ bus.pattern = Net02 =>
         bus.result.names = <<<<"n", "e", "t">> \o IndexText(0),
                              <<"n", "e", "t">> \o IndexText(1),
                              <<"n", "e", "t">> \o IndexText(2)>>

\* a pattern with two ranges, the first written hi:lo, was expanded without
\* a cap into its four names
C21_Witness ==
  /\ ExpandDone
  /\ bus.cap = NoValue
  /\ bus.pattern = <<"n">> \o RangeText(1, ":", 0) \o <<"x">>
                     \o RangeText(0, ":", 1)
  /\ Len(bus.result.names) = 4
  /\ bus.result.names[2] = <<"n">> \o IndexText(0) \o <<"x">> \o IndexText(1)

\* the outcome the cap asks for: the error naming the cap and the pattern of
\* the call and no list when the full expansion has more names than the cap,
\* a list of at most cap names when it fits
CapEnforced ==
  IF FullSize(bus.pattern) > bus.cap[1]
  THEN /\ bus.result.raised
       /\ bus.result.error.limit = bus.cap
       /\ bus.result.error.pattern = bus.pattern
       /\ bus.result.names = <<>>
  ELSE /\ ~bus.result.raised
       /\ Len(bus.result.names) <= bus.cap[1]

\* C22 as stated: for every pattern and every cap, expand fails with the
\* expansion-limit error naming the pattern and the cap when the full
\* expansion has more names than the cap, and returns at most cap names when
\* it fits.
C22_EveryCapEnforced ==
  (ExpandDone /\ bus.cap # NoValue) => CapEnforced

\* C22: for every pattern and every cap greater than zero, expand fails with
\* the expansion-limit error naming the original pattern and the cap, and
\* returns no list, when the full expansion has more names than the cap, and
\* returns at most cap names when it fits.
C22_PositiveCapEnforced ==
  (ExpandDone /\ bus.cap # NoValue /\ bus.cap[1] > 0) => CapEnforced

\* a pattern with two ranges met a cap of three names: the error names the
\* pattern of the call, which still holds both ranges
C22_Witness ==
  /\ ExpandDone
  /\ bus.cap = <<3>>
  /\ Len(RangesOf(bus.pattern)) = 2
  /\ FullSize(bus.pattern) = 4
  /\ bus.result.raised
  /\ bus.result.error.pattern = bus.pattern

\* a collapse call that has returned
CollapseDone == bus.op = "collapse" /\ bus.done

\* a concrete name: it holds no range
Concrete(name) == ~HasBusRange(name)

\* the bracket skeleton of a concrete name: every bracketed index replaced
\* by an empty bracket pair; names are compared without regard to case
Skeleton(name) == LowerStr(IndexSub(name))

\* the indices of a concrete name, left to right
IndexTuple(name) ==
  LET found == IndexFindAll(name)
  IN [k \in DOMAIN found |-> ParseInt(found[k])]

\* the names share one bracket skeleton
OneSkeleton(S) == \A a, b \in S : Skeleton(a) = Skeleton(b)

\* the set of indices the names have in dimension d
DimensionSet(S, d) == {IndexTuple(name)[d] : name \in S}

\* the number of dimensions of names that share a skeleton
Dimensions(S) == Len(IndexTuple(CHOOSE name \in S : TRUE))

\* every dimension's index set is an interval of the integers
AllContiguous(S) ==
  \A d \in 1 .. Dimensions(S) : Contiguous(DimensionSet(S, d))

\* the index tuples of the names are all the combinations of the
\* per-dimension index sets
FullProduct(S) ==
  LET k == Dimensions(S)
      all == UNION {DimensionSet(S, d) : d \in 1 .. k}
  IN {IndexTuple(name) : name \in S}
       = {t \in [1 .. k -> all] : \A d \in 1 .. k : t[d] \in DimensionSet(S, d)}

\* a set of concrete names that share one skeleton and cover a full rectangle
\* of contiguous indices in every dimension
Rectangle(S) ==
  /\ S # {}
  /\ \A name \in S : Concrete(name)
  /\ OneSkeleton(S)
  /\ AllContiguous(S)
  /\ FullProduct(S)

\* the name is unchanged by lower-casing, writes every index in the digits
\* 0-9 without leading zeros, and holds no empty bracket pair
PlainName(name) ==
  /\ LowerStr(name) = name
  /\ \A k \in DOMAIN IndexFindAll(name) :
       DecStr(ParseInt(IndexFindAll(name)[k])) = IndexFindAll(name)[k]
  /\ \A i \in 1 .. Len(name) - 1 : ~(name[i] = "[" /\ name[i + 1] = "]")

\* collapse returned a pattern whose expansion is the set of the names given
RoundTrip ==
  /\ bus.result # NoValue
  /\ Elems(ExpandBusNotation(bus.result[1], NoValue).names) = Elems(bus.names)

\* C23 as stated: for any set of concrete names that share one bracket
\* skeleton and cover a full rectangle of contiguous indices in every
\* dimension, collapse returns a pattern whose expansion is exactly the set.
C23_CollapseExpandRoundTrip ==
  (CollapseDone /\ Rectangle(Elems(bus.names))) => RoundTrip

\* C23: for any set of concrete names that are unchanged by lower-casing,
\* write every index without leading zeros and hold no empty bracket pair,
\* that share one bracket skeleton and cover a full rectangle of contiguous
\* indices in every dimension, collapse returns a pattern whose expansion is
\* exactly the set.
C23_PlainRoundTrip ==
  (/\ CollapseDone
   /\ Rectangle(Elems(bus.names))
   /\ \A name \in Elems(bus.names) : PlainName(name)) => RoundTrip

\* the four names of a 2 x 2 rectangle were collapsed into one pattern with
\* two ranges
C23_Witness ==
  /\ CollapseDone
  /\ Cardinality(Elems(bus.names)) = 4
  /\ Rectangle(Elems(bus.names))
  /\ \A name \in Elems(bus.names) : PlainName(name)
  /\ bus.result = <<<<"n">> \o RangeText(0, ":", 1) \o <<"x">>
                      \o RangeText(0, ":", 1)>>

\* the names of the call do not all share one skeleton, or some dimension's
\* index set is not contiguous, or the names are not the full product of the
\* per-dimension index sets
NotRectangular(S) ==
  \/ ~OneSkeleton(S)
  \/ OneSkeleton(S) /\ ~AllContiguous(S)
  \/ OneSkeleton(S) /\ ~FullProduct(S)

MaxText == 6

\* the lines of the texts: the opening lines of blk, of a block of the same
\* name in upper case with the ports the other way round, of top and of a
\* block with one port name twice; the terminator; an instance of blk, one
\* with a net too few, and one of a template no text defines
TextLines ==
  {<<".subckt", "blk", "p", "q">>,
   <<".subckt", "BLK", "q", "p">>,
   <<".subckt", "top", "a", "b">>,
   <<".subckt", "dup", "b", "B">>,
   <<".ends">>,
   <<"Xi1", "a", "b", "blk">>,
   <<"Xi2", "a", "blk">>,
   <<"Xi3", "a", "b", "nob">>}

\* line_list[0].startswith('X')
StartsWithX(field) == field \in {"Xi1", "Xi2", "Xi3"}

\* instance_line_list[0][1:]
DropFirstChar(field) ==
  CASE field = "Xi1" -> "i1"
    [] field = "Xi2" -> "i2"
    [] field = "Xi3" -> "i3"
    [] OTHER -> field

\* seq[1:-1] and seq[2:]
Slice(seq, from, to) == SubSeq(seq, from, to)

\* NetlistNet(name, is_interface)
NetlistNet(name, is_interface) ==
  [name |-> name, lower_name |-> Lower(name), is_interface |-> is_interface,
   connected_sub_instances |-> <<>>]

\* NetlistTemplate.__init__ raises: a pin name is in _net_name_map already
TemplatePinDuplicated(pin_names) ==
  \E i, j \in DOMAIN pin_names : i < j /\ Lower(pin_names[i]) = Lower(pin_names[j])

\* NetlistTemplate(name, pin_names, is_top_cell): _nets holds the nets in
\* the order they were added, the first interface_count of them are
\* _interface_nets, and _net_name_map is the lookup by lower_name
NetlistTemplate(name, pin_names, is_top_cell) ==
  [kind |-> "NetlistTemplate", name |-> name, lower_name |-> Lower(name),
   nets |-> [i \in DOMAIN pin_names |-> NetlistNet(pin_names[i], TRUE)],
   interface_count |-> Len(pin_names),
   sub_instances |-> <<>>, self_instances |-> <<>>,
   is_top_cell |-> is_top_cell]

\* the position of a net in _nets by _net_name_map, 0 when it has none
NetPosition(template, net_name) ==
  LET at == {i \in DOMAIN template.nets :
               template.nets[i].lower_name = Lower(net_name)}
  IN IF at = {} THEN 0 ELSE CHOOSE i \in at : TRUE

\* template.get_or_add_net(net_name): the template afterwards
GetOrAddNet(template, net_name) ==
  IF NetPosition(template, net_name) # 0 THEN template
  ELSE [template EXCEPT !.nets = Append(@, NetlistNet(net_name, FALSE))]

\* for instance_pin in instance_pin_names: template.get_or_add_net(...)
RECURSIVE GetOrAddNets(_, _)
GetOrAddNets(template, net_names) ==
  IF net_names = <<>> THEN template
  ELSE GetOrAddNets(GetOrAddNet(template, net_names[1]), Tail(net_names))

\* Netlist()
EmptyNetlist == [template_name_map |-> EmptyDict, top_cell |-> NoTemplate]

\* netlist.find_template(template_name) found a template
FindTemplate(netlist, template_name) ==
  Lower(template_name) \in DOMAIN netlist.template_name_map

\* netlist.add_template(template), which raises when the name is taken; the
\* top cell is kept by its key
AddTemplate(netlist, template) ==
  [template_name_map |->
     DictSet(netlist.template_name_map, template.lower_name, template),
   top_cell |-> IF template.is_top_cell THEN template.lower_name
                ELSE netlist.top_cell]

\* netlist.add_template(template) raises: the name is in the map already
AddTemplateRaises(netlist, template) ==
  template.lower_name \in DOMAIN netlist.template_name_map

\* the locals of read_spice_file before the first line
BuilderStart ==
  [netlist |-> EmptyNetlist,
   just_read_template_line |-> FALSE,
   in_template |-> FALSE,
   template |-> None,
   template_name |-> "",
   template_pin_names |-> <<>>,
   just_read_instance_line |-> FALSE,
   instance_line_list |-> <<>>]

\* a step of read_spice_file ended by a ValueError
BuilderRaised(st) == [st |-> st, raised |-> TRUE]

BuilderGoesOn(st) == [st |-> st, raised |-> FALSE]

\* the block `if just_read_template_line:` for a line that is no
\* continuation
BuildPendingTemplate(st) ==
  IF ~st.just_read_template_line THEN BuilderGoesOn(st)
  ELSE IF st.template_pin_names = <<>> THEN BuilderRaised(st)
  ELSE IF TemplatePinDuplicated(st.template_pin_names) THEN BuilderRaised(st)
  ELSE BuilderGoesOn(
         [st EXCEPT !.template =
                      NetlistTemplate(st.template_name, st.template_pin_names,
                                      st.template_name = TopCellName),
                    !.just_read_template_line = FALSE])

\* NetlistInstance.__init__ raises: len(connected_nets) differs from
\* len(template.get_interface_nets())
InstanceCountDiffers(connected_nets, instance_template) ==
  Len(connected_nets) # instance_template.interface_count

\* connected_net.add_connected_sub_instance(instance, pin) for the pairs of
\* zip(connected_nets, instance_template.get_interface_nets())
RECURSIVE ConnectSubInstance(_, _, _, _, _)
ConnectSubInstance(template, instance_name, connected_nets, pins, k) ==
  IF k > Len(connected_nets) \/ k > Len(pins) THEN template
  ELSE ConnectSubInstance(
         [template EXCEPT
            !.nets[NetPosition(template, connected_nets[k])]
               .connected_sub_instances = Append(@, <<instance_name, pins[k]>>)],
         instance_name, connected_nets, pins, k + 1)

\* the block `if just_read_instance_line:` for a line that is no
\* continuation
BuildPendingInstance(st) ==
  IF ~st.just_read_instance_line THEN BuilderGoesOn(st)
  ELSE
    LET instance_name == DropFirstChar(st.instance_line_list[1])
        instance_template_name ==
          st.instance_line_list[Len(st.instance_line_list)]
        instance_pin_names ==
          Slice(st.instance_line_list, 2, Len(st.instance_line_list) - 1)
        instance_template ==
          st.netlist.template_name_map[Lower(instance_template_name)]
        with_nets == GetOrAddNets(st.template, instance_pin_names)
        instance == [name |-> instance_name,
                     lower_name |-> Lower(instance_name),
                     template |-> Lower(instance_template_name),
                     connected_nets |-> [k \in DOMAIN instance_pin_names |->
                                           Lower(instance_pin_names[k])],
                     parent_template |-> st.template.name]
        pins == [k \in 1 .. instance_template.interface_count |->
                   instance_template.nets[k].lower_name]
        connected == ConnectSubInstance(with_nets, instance_name,
                                        instance_pin_names, pins, 1)
    IN IF instance_name = "" THEN BuilderRaised(st)
       ELSE IF Len(st.instance_line_list) < 2 THEN BuilderRaised(st)
       ELSE IF ~FindTemplate(st.netlist, instance_template_name)
            THEN BuilderRaised(st)
       ELSE IF InstanceCountDiffers(instance_pin_names, instance_template)
            THEN BuilderRaised(st)
       ELSE IF \E k \in DOMAIN st.template.sub_instances :
                 st.template.sub_instances[k].lower_name = instance.lower_name
            THEN BuilderRaised(st)
       ELSE BuilderGoesOn(
              [st EXCEPT
                 !.netlist.template_name_map[Lower(instance_template_name)]
                    .self_instances = Append(@, instance),
                 !.template =
                    [connected EXCEPT !.sub_instances = Append(@, instance)],
                 !.just_read_instance_line = FALSE])

\* the rest of the loop body: the line opens a block, ends one, or is a line
\* of the block
BuildLine(st, line_list) ==
  IF Lower(line_list[1]) = ".subckt"
  THEN IF Len(line_list) < 2 THEN BuilderRaised(st)
       ELSE BuilderGoesOn([st EXCEPT !.just_read_template_line = TRUE,
                                     !.in_template = TRUE,
                                     !.template_name = line_list[2],
                                     !.template_pin_names =
                                        Slice(line_list, 3, Len(line_list))])
  ELSE IF ~st.in_template THEN BuilderGoesOn(st)
  ELSE IF Lower(line_list[1]) = ".ends"
       THEN IF AddTemplateRaises(st.netlist, st.template)
            THEN BuilderRaised(st)
            ELSE BuilderGoesOn(
                   [st EXCEPT !.netlist = AddTemplate(st.netlist, st.template),
                              !.in_template = FALSE,
                              !.template_name = ""])
  ELSE IF StartsWithX(line_list[1])
       THEN BuilderGoesOn([st EXCEPT !.just_read_instance_line = TRUE,
                                     !.instance_line_list = line_list])
  ELSE BuilderGoesOn(st)

\* the body of `for line in file:` for one line
BuilderLoopBody(st, line_list) ==
  LET built == BuildPendingTemplate(st)
      placed == BuildPendingInstance(built.st)
  IN IF built.raised THEN built
     ELSE IF placed.raised THEN placed
     ELSE BuildLine(placed.st, line_list)

\* the locals of parse_spice_file before the first line
SpiceStart == [subckts |-> EmptyDict, current |-> None]

\* SubcktDef(name=name, ports=ports, local_nets=set(ports))
NewSubcktDef(name, ports) ==
  [kind |-> "SubcktDef", name |-> name, ports |-> ports, instances |-> <<>>,
   local_nets |-> Elems(ports)]

\* the body of `for raw_line in text.splitlines():` for one line
SpiceLoopBody(st, tokens) ==
  IF Lower(tokens[1]) = ".subckt"
  THEN [st EXCEPT !.current =
          NewSubcktDef(Lower(tokens[2]),
                       [k \in 1 .. Len(tokens) - 2 |-> Lower(tokens[k + 2])])]
  ELSE IF Lower(tokens[1]) = ".ends"
  THEN IF st.current # None
       THEN [subckts |-> DictSet(st.subckts, st.current.name, st.current),
             current |-> None]
       ELSE st
  ELSE IF st.current = None THEN st
  ELSE IF StartsWithX(tokens[1])
  THEN LET connections == [k \in 1 .. Len(tokens) - 2 |-> Lower(tokens[k + 1])]
       IN [st EXCEPT
             !.current.instances =
                Append(@, SubcktInstance(Lower(DropFirstChar(tokens[1])),
                                         connections,
                                         Lower(tokens[Len(tokens)]))),
             !.current.local_nets = @ \cup Elems(connections)]
  ELSE st

(***************************************************************************)
(* What the text read so far holds, by the grammar of the text alone: a    *)
(* block is open from its .subckt line to the next .ends line.             *)
(***************************************************************************)

\* nothing has been read
SeenNothing ==
  [open |-> FALSE, open_name |-> "", open_bad |-> FALSE, closed |-> {},
   unterminated |-> {}, bad_instance |-> FALSE, repeated |-> {}]

\* the instance line has a net too few for its template, or names a
\* template that no text defines
BadInstanceLine(line) == line[1] \in {"Xi2", "Xi3"}

\* the text with one more line
SeenLine(seen, line) ==
  IF Lower(line[1]) = ".subckt"
  THEN [seen EXCEPT !.open = TRUE, !.open_name = Lower(line[2]),
                    !.open_bad = FALSE,
                    !.unterminated =
                       IF seen.open THEN @ \cup {seen.open_name} ELSE @]
  ELSE IF Lower(line[1]) = ".ends"
  THEN IF seen.open
       THEN [seen EXCEPT !.open = FALSE, !.open_name = "",
                         !.open_bad = FALSE,
                         !.closed = @ \cup {seen.open_name},
                         !.bad_instance = @ \/ seen.open_bad,
                         !.repeated =
                            IF seen.open_name \in seen.closed
                            THEN @ \cup {seen.open_name} ELSE @]
       ELSE seen
  ELSE IF seen.open /\ BadInstanceLine(line)
  THEN [seen EXCEPT !.open_bad = TRUE]
  ELSE seen

\* the text is at its end
SeenEnd(seen) ==
  IF seen.open
  THEN [seen EXCEPT !.open = FALSE,
                    !.unterminated = @ \cup {seen.open_name}]
  ELSE seen

(***************************************************************************)
(* The parse as steps: a parser is chosen at the start, then every step    *)
(* reads one more line, until the text ends or the parser raises.          *)
(***************************************************************************)

Parsers == {"NetlistBuilder", "parse_spice_file"}

\* a parse that has read nothing yet
ParseStart(parser) ==
  [parser |-> parser, phase |-> "reading", counter |-> 0,
   st |-> IF parser = "NetlistBuilder" THEN BuilderStart ELSE SpiceStart,
   seen |-> SeenNothing, error_line |-> 0]

InitParse ==
  /\ StoreInit
  /\ build = NoBuild
  /\ nqs = NoService
  /\ bus = NoBus
  /\ parse \in {ParseStart(parser) : parser \in Parsers}
  /\ db = NoDb
  /\ document = NoDocument
  /\ session = NoSession
  /\ cache = NoCache
  /\ pure = NoPure
  /\ ctor = NoCtor
  /\ service = NoDocumentService

\* read_spice_file reads one more line
BuilderReadLine(line) ==
  /\ parse.parser = "NetlistBuilder"
  /\ parse.phase = "reading"
  /\ parse.counter < MaxText
  /\ LET step == BuilderLoopBody(parse.st, line)
     IN parse' = IF step.raised
                 THEN [parse EXCEPT !.phase = "raised",
                                    !.counter = @ + 1,
                                    !.error_line = parse.counter + 1,
                                    !.st = BuilderStart,
                                    !.seen = SeenLine(@, line)]
                 ELSE [parse EXCEPT !.counter = @ + 1,
                                    !.st = step.st,
                                    !.seen = SeenLine(@, line)]
  /\ UNCHANGED <<line_nets, net_lines, doc, last, before, build, nqs, bus,
                 db, document, session,
                 cache, pure, ctor, service>>

\* read_spice_file after the last line: the netlist is returned when it has
\* its top cell
BuilderEndOfFile ==
  /\ parse.parser = "NetlistBuilder"
  /\ parse.phase = "reading"
  /\ parse' = IF parse.st.netlist.top_cell = NoTemplate
              THEN [parse EXCEPT !.phase = "raised", !.st = BuilderStart,
                                 !.seen = SeenEnd(@)]
              ELSE [parse EXCEPT !.phase = "returned", !.seen = SeenEnd(@)]
  /\ UNCHANGED <<line_nets, net_lines, doc, last, before, build, nqs, bus,
                 db, document, session,
                 cache, pure, ctor, service>>

\* parse_spice_file reads one more line
SpiceReadLine(line) ==
  /\ parse.parser = "parse_spice_file"
  /\ parse.phase = "reading"
  /\ parse.counter < MaxText
  /\ parse' = [parse EXCEPT !.counter = @ + 1,
                            !.st = SpiceLoopBody(@, line),
                            !.seen = SeenLine(@, line)]
  /\ UNCHANGED <<line_nets, net_lines, doc, last, before, build, nqs, bus,
                 db, document, session,
                 cache, pure, ctor, service>>

\* parse_spice_file after the last line: return subckts
SpiceEndOfFile ==
  /\ parse.parser = "parse_spice_file"
  /\ parse.phase = "reading"
  /\ parse' = [parse EXCEPT !.phase = "returned", !.seen = SeenEnd(@)]
  /\ UNCHANGED <<line_nets, net_lines, doc, last, before, build, nqs, bus,
                 db, document, session,
                 cache, pure, ctor, service>>

NextParse ==
  \/ \E line \in TextLines : BuilderReadLine(line)
  \/ BuilderEndOfFile
  \/ \E line \in TextLines : SpiceReadLine(line)
  \/ SpiceEndOfFile

SpecParse == InitParse /\ [][NextParse]_vars

(***************************************************************************)
(* Properties of the parsers, checked under SpecParse.                     *)
(***************************************************************************)

\* the parse is over: a netlist was returned or an error was raised
ParseDone == parse.phase \in {"returned", "raised"}

ParseReturned == parse.phase = "returned"

\* the templates of the returned netlist, by lower-case name: the ports and,
\* for every instance, the template it names and its connection list
ReturnedTemplates ==
  IF parse.parser = "NetlistBuilder"
  THEN [k \in DOMAIN parse.st.netlist.template_name_map |->
          LET tp == parse.st.netlist.template_name_map[k]
          IN [ports |-> [i \in 1 .. tp.interface_count |->
                           tp.nets[i].lower_name],
              instances |-> [i \in DOMAIN tp.sub_instances |->
                               [template |-> tp.sub_instances[i].template,
                                nets |-> tp.sub_instances[i].connected_nets]]]]
  ELSE [k \in DOMAIN parse.st.subckts |->
          LET def == parse.st.subckts[k]
          IN [ports |-> def.ports,
              instances |-> [i \in DOMAIN def.instances |->
                               [template |-> def.instances[i].subckt_name,
                                nets |-> def.instances[i].connections]]]]

\* C25: a parse of a text in which a block is opened and the text ends, or
\* another block opens, before the block's terminator line fails with an
\* error and returns no netlist.
C25_UnterminatedBlockFatal ==
  (ParseDone /\ parse.seen.unterminated # {}) => parse.phase = "raised"

\* the NetlistBuilder read a text whose last block, the top cell, has no
\* terminator line, and raised
C25_Witness ==
  /\ parse.parser = "NetlistBuilder"
  /\ parse.seen.unterminated = {"top"}
  /\ parse.seen.closed = {"blk"}
  /\ parse.phase = "raised"

\* every instance of the returned netlist names a template of the netlist
\* and has as many nets as that template has ports
InstancesWellFormed ==
  \A k \in DOMAIN ReturnedTemplates :
    \A i \in DOMAIN ReturnedTemplates[k].instances :
      LET inst == ReturnedTemplates[k].instances[i]
      IN /\ inst.template \in DOMAIN ReturnedTemplates
         /\ Len(inst.nets) = Len(ReturnedTemplates[inst.template].ports)

\* C26: in every netlist that parsing returns every instance names a
\* template of the netlist and has exactly as many nets as that template has
\* ports, and a text with an instance line, in a terminated block, that
\* names an unknown template or has a different number of nets returns no
\* netlist.
C26_InstancesMatchTemplates ==
  /\ ParseReturned => InstancesWellFormed
  /\ (ParseDone /\ parse.seen.bad_instance) => parse.phase = "raised"

\* the NetlistBuilder returned a netlist in which top holds an instance of
\* blk with two nets
C26_Witness ==
  /\ parse.parser = "NetlistBuilder"
  /\ ParseReturned
  /\ "top" \in DOMAIN ReturnedTemplates
  /\ ReturnedTemplates["top"].instances
       = <<[template |-> "blk", nets |-> <<"a", "b">>]>>

\* the template names of the returned netlist are pairwise distinct without
\* regard to case, and so are the port names of each template
NamesDistinct ==
  /\ \A k1, k2 \in DOMAIN ReturnedTemplates :
       Lower(k1) = Lower(k2) => k1 = k2
  /\ \A k \in DOMAIN ReturnedTemplates :
       \A i, j \in DOMAIN ReturnedTemplates[k].ports :
         Lower(ReturnedTemplates[k].ports[i])
           = Lower(ReturnedTemplates[k].ports[j]) => i = j

\* C27: in every netlist that parsing returns the template names are
\* pairwise distinct without regard to case and the port names of each
\* template are pairwise distinct, and a text with a second terminated block
\* of the name of an earlier one returns no netlist, so the earlier template
\* is never replaced.
C27_TemplateNamesUnique ==
  /\ ParseReturned => NamesDistinct
  /\ (ParseDone /\ parse.seen.repeated # {}) => parse.phase = "raised"

\* the NetlistBuilder read a second terminated block named like blk and
\* raised at its terminator line
C27_Witness ==
  /\ parse.parser = "NetlistBuilder"
  /\ parse.seen.repeated = {"blk"}
  /\ parse.phase = "raised"
  /\ parse.error_line = 4

(***************************************************************************)
(* close(): NetlistDatabase.close and the _cleanup_database of the two     *)
(* query services, called by several threads.  Every statement of a call   *)
(* is one step of its thread.                                              *)
(***************************************************************************)

\* the number of threads that call close()
MaxThreads == 2

\* the largest number of close() calls of one thread
MaxCloses == 2

Threads == 1 .. MaxThreads

\* the classes with a close()
Closeables ==
  {"NetlistDatabase", "SpiceNetlistQueryService", "NetlistQueryService"}

\* no thread holds the RLock
NoThread == 0

\* a thread that is in no call
IdleThread == [pc |-> "idle", calls |-> 0, returned |-> 0, raised |-> FALSE,
               pending |-> FALSE]

\* the object after __init__: the lock is free, _is_closed is False, the
\* caches hold entries; has_conn says whether _db_conn was assigned (the
\* NetlistDatabase always assigns it); overlapped records that a call began
\* while another thread was inside one
NewDb(kind, has_conn) ==
  [open |-> TRUE, kind |-> kind, has_conn |-> has_conn, conn_closes |-> 0,
   is_closed |-> FALSE, lock_owner |-> NoThread, caches |-> TRUE,
   overlapped |-> FALSE,
   threads |-> [t \in Threads |-> IdleThread]]

InitClose ==
  /\ StoreInit
  /\ build = NoBuild
  /\ nqs = NoService
  /\ bus = NoBus
  /\ parse = NoParse
  /\ db \in {NewDb(kind, has_conn) :
               kind \in Closeables, has_conn \in BOOLEAN}
             \ {NewDb("NetlistDatabase", FALSE)}
  /\ document = NoDocument
  /\ session = NoSession
  /\ cache = NoCache
  /\ pure = NoPure
  /\ ctor = NoCtor
  /\ service = NoDocumentService

\* a mutation of AlreadyClosed: the flag is not read
AlreadyClosedNotRead(d) == FALSE

\* `if self._is_closed: return` under the lock
AlreadyClosed(d) == d.is_closed

\* `except Exception: pass`: whether the exception of _db_conn.close() is
\* still pending after the try statement
ExceptPass(conn_raises) == FALSE

\* a thread calls close(); _db_lock exists, and the thread goes on to
\* `with self._db_lock:`
CloseCall(t) ==
  /\ db.open
  /\ db.threads[t].pc = "idle"
  /\ db.threads[t].calls < MaxCloses
  /\ db' = [db EXCEPT !.threads[t].pc = "with", !.threads[t].calls = @ + 1,
                      !.overlapped =
                        @ \/ \E u \in Threads : db.threads[u].pc # "idle"]
  /\ UNCHANGED <<line_nets, net_lines, doc, last, before, build, nqs, bus,
                 parse, document, session,
                 cache, pure, ctor, service>>

\* the thread acquires the RLock
LockAcquire(t) ==
  /\ db.open
  /\ db.threads[t].pc = "with"
  /\ db.lock_owner \in {NoThread, t}
  /\ db' = [db EXCEPT !.lock_owner = t, !.threads[t].pc = "check"]
  /\ UNCHANGED <<line_nets, net_lines, doc, last, before, build, nqs, bus,
                 parse, document, session,
                 cache, pure, ctor, service>>

\* `if self._is_closed: return`, which releases the lock
CheckClosed(t) ==
  /\ db.open
  /\ db.threads[t].pc = "check"
  /\ db' = IF AlreadyClosed(db)
           THEN [db EXCEPT !.lock_owner = NoThread,
                           !.threads[t].pc = "idle",
                           !.threads[t].returned = @ + 1]
           ELSE [db EXCEPT !.threads[t].pc = "try"]
  /\ UNCHANGED <<line_nets, net_lines, doc, last, before, build, nqs, bus,
                 parse, document, session,
                 cache, pure, ctor, service>>

\* the try statement: self._db_conn.close() when there is a connection; the
\* close may raise, and the except clause decides what is left of that
ConnClose(t, conn_raises) ==
  /\ db.open
  /\ db.threads[t].pc = "try"
  /\ db' = IF db.has_conn
           THEN [db EXCEPT !.conn_closes = @ + 1,
                           !.threads[t].pending = ExceptPass(conn_raises),
                           !.threads[t].pc = "finally"]
           ELSE [db EXCEPT !.threads[t].pc = "finally"]
  /\ UNCHANGED <<line_nets, net_lines, doc, last, before, build, nqs, bus,
                 parse, document, session,
                 cache, pure, ctor, service>>

\* `finally: self._is_closed = True`; the NetlistDatabase then leaves the
\* with block, a query service goes on to its cache_clear() calls unless an
\* exception is pending
FinallyClosed(t) ==
  /\ db.open
  /\ db.threads[t].pc = "finally"
  /\ db' = IF db.threads[t].pending
           THEN [db EXCEPT !.is_closed = TRUE,
                           !.lock_owner = NoThread,
                           !.threads[t].pc = "idle",
                           !.threads[t].pending = FALSE,
                           !.threads[t].raised = TRUE]
           ELSE IF db.kind = "NetlistDatabase"
           THEN [db EXCEPT !.is_closed = TRUE,
                           !.lock_owner = NoThread,
                           !.threads[t].pc = "idle",
                           !.threads[t].returned = @ + 1]
           ELSE [db EXCEPT !.is_closed = TRUE,
                           !.threads[t].pc = "cache_clear"]
  /\ UNCHANGED <<line_nets, net_lines, doc, last, before, build, nqs, bus,
                 parse, document, session,
                 cache, pure, ctor, service>>

\* the cache_clear() calls of a query service, then the end of the with
\* block
CacheClear(t) ==
  /\ db.open
  /\ db.threads[t].pc = "cache_clear"
  /\ db' = [db EXCEPT !.caches = FALSE,
                      !.lock_owner = NoThread,
                      !.threads[t].pc = "idle",
                      !.threads[t].returned = @ + 1]
  /\ UNCHANGED <<line_nets, net_lines, doc, last, before, build, nqs, bus,
                 parse, document, session,
                 cache, pure, ctor, service>>

NextClose ==
  \/ \E t \in Threads : CloseCall(t)
  \/ \E t \in Threads : LockAcquire(t)
  \/ \E t \in Threads : CheckClosed(t)
  \/ \E t \in Threads, conn_raises \in BOOLEAN : ConnClose(t, conn_raises)
  \/ \E t \in Threads : FinallyClosed(t)
  \/ \E t \in Threads : CacheClear(t)

SpecClose == InitClose /\ [][NextClose]_vars

(***************************************************************************)
(* Properties of close(), checked under SpecClose.                         *)
(***************************************************************************)

\* the close() calls that have ended, over all threads
RECURSIVE ClosesEnded(_)
ClosesEnded(t) ==
  IF t = 0 THEN 0
  ELSE (IF db.threads[t].raised THEN 1 ELSE 0) + db.threads[t].returned
       + ClosesEnded(t - 1)

\* the connection has been closed once if there is one, never more, no
\* close() call has raised, and after the first call that ended the object
\* is closed
ReleasedOnce ==
  db.open =>
    /\ db.conn_closes <= 1
    /\ \A t \in Threads : ~db.threads[t].raised
    /\ ClosesEnded(MaxThreads) >= 1 =>
         /\ db.is_closed
         /\ db.conn_closes = IF db.has_conn THEN 1 ELSE 0

\* C28: close() may be called any number of times, one call after another
\* or from several threads at once: the connection is closed exactly once,
\* no call raises, and every step taken once the object is closed leaves the
\* connection and the closed flag as they are.
C28_CloseIdempotent ==
  /\ []ReleasedOnce
  /\ [][(db.open /\ db.is_closed) =>
          /\ db'.is_closed
          /\ db'.conn_closes = db.conn_closes]_vars

\* two threads were inside close() at once, both calls have ended, and a
\* further call has ended after them
C28_Witness ==
  /\ db.open
  /\ db.has_conn
  /\ db.overlapped
  /\ db.conn_closes = 1
  /\ db.threads[1].calls = 2
  /\ db.threads[1].returned = 2
  /\ db.threads[2].returned >= 1

(***************************************************************************)
(* Document: the ordered lines, the index from line_id to position, and    *)
(* the undo and redo stacks of commands.  Positions are 0-based as in the  *)
(* source; a Python list is a sequence whose element i is at i + 1.        *)
(***************************************************************************)

\* the largest number of lines of a document
MaxDocLines == 3

\* the largest number of recorded mutations
MaxOps == 2

\* the line_id values
LineIds == {"a", "b", "c"}

\* DocumentLine(line_id, raw_text)
DocumentLine(line_id, raw_text) ==
  [line_id |-> line_id, raw_text |-> raw_text]

\* the lines a caller passes to insert_line and replace_line
NewLines == {DocumentLine(line_id, "new") : line_id \in LineIds}

\* the positions a caller passes
Positions == -1 .. MaxDocLines

\* no exception
NoError == ""

\* list.insert(position, x): a position beyond an end is the end, a negative
\* one counts from the back
ListInsert(list, position, x) ==
  LET n == Len(list)
      p == IF position < 0 THEN Max(0, n + position) ELSE Min(position, n)
  IN SubSeq(list, 1, p) \o <<x>> \o SubSeq(list, p + 1, n)

\* the place of list[position], a negative position counting from the back;
\* 0 when list[position] raises IndexError
ListPlace(list, position) ==
  LET p == IF position < 0 THEN Len(list) + position ELSE position
  IN IF p >= 0 /\ p < Len(list) THEN p + 1 ELSE 0

\* list.pop(position) where ListPlace is not 0
ListPop(list, position) ==
  LET p == ListPlace(list, position)
  IN SubSeq(list, 1, p - 1) \o SubSeq(list, p + 1, Len(list))

\* _rebuild_index: a later line of the same line_id wins
RebuildIndex(list) ==
  [line_id \in {list[i].line_id : i \in DOMAIN list} |->
     CHOOSE p \in 0 .. Len(list) - 1 :
       /\ list[p + 1].line_id = line_id
       /\ \A q \in p + 1 .. Len(list) - 1 : list[q + 1].line_id # line_id]

\* the outcome of a raw mutation: the lines and the index it leaves, and
\* the exception it raised
Raw(list, index, raised) ==
  [lines |-> list, index |-> index, raised |-> raised]

\* _raw_insert_line
raw_insert_line(d, position, line) ==
  IF line.line_id \in DOMAIN d.index
  THEN Raw(d.lines, d.index, "ValueError")
  ELSE Raw(ListInsert(d.lines, position, line),
           [lid \in DOMAIN d.index \cup {line.line_id} |->
              IF lid = line.line_id THEN position
              ELSE IF d.index[lid] >= position THEN d.index[lid] + 1
              ELSE d.index[lid]],
           NoError)

\* _raw_remove_line: the index entry is popped before the list is
reached_remove(d, line_id) ==
  LET pos == d.index[line_id]
      popped == DictPop(d.index, line_id)
  IN IF ListPlace(d.lines, pos) = 0
     THEN Raw(d.lines, popped, "IndexError")
     ELSE Raw(ListPop(d.lines, pos),
              [lid \in DOMAIN popped |->
                 IF popped[lid] > pos THEN popped[lid] - 1 ELSE popped[lid]],
              NoError)

raw_remove_line(d, line_id) ==
  IF line_id \notin DOMAIN d.index
  THEN Raw(d.lines, d.index, "KeyError")
  ELSE reached_remove(d, line_id)

\* _raw_replace_line
raw_replace_line(d, line_id, new_line) ==
  IF line_id \notin DOMAIN d.index
  THEN Raw(d.lines, d.index, "KeyError")
  ELSE LET pos == d.index[line_id]
           popped == DictPop(d.index, line_id)
           p == ListPlace(d.lines, pos)
       IN IF p = 0
          THEN Raw(d.lines, popped, "IndexError")
          ELSE Raw([d.lines EXCEPT ![p] = new_line],
                   DictSet(popped, new_line.line_id, pos),
                   NoError)

\* _raw_swap_lines
raw_swap_lines(d, pos_a, pos_b) ==
  IF ~(0 <= pos_a /\ pos_a < Len(d.lines))
     \/ ~(0 <= pos_b /\ pos_b < Len(d.lines))
  THEN Raw(d.lines, d.index, "IndexError")
  ELSE LET line_a == d.lines[pos_a + 1]
           line_b == d.lines[pos_b + 1]
       IN Raw([d.lines EXCEPT ![pos_a + 1] = line_b, ![pos_b + 1] = line_a],
              DictSet(DictSet(d.index, line_a.line_id, pos_b),
                      line_b.line_id, pos_a),
              NoError)

\* the line of a command that has none
NoLineArg == DocumentLine("", "")

\* the commands; pre and post are the line sequences before and after the
\* mutation that was recorded, kept for the properties only
Command(kind, position, line, old_line, new_line, pos_a, pos_b, pre, post) ==
  [kind |-> kind, position |-> position, line |-> line,
   old_line |-> old_line, new_line |-> new_line,
   pos_a |-> pos_a, pos_b |-> pos_b, pre |-> pre, post |-> post]

InsertCmd(position, line, pre, post) ==
  Command("insert", position, line, NoLineArg, NoLineArg, 0, 0, pre, post)

RemoveCmd(position, line, pre, post) ==
  Command("remove", position, line, NoLineArg, NoLineArg, 0, 0, pre, post)

ReplaceCmd(old_line, new_line, pre, post) ==
  Command("replace", 0, NoLineArg, old_line, new_line, 0, 0, pre, post)

SwapCmd(pos_a, pos_b, pre, post) ==
  Command("swap", 0, NoLineArg, NoLineArg, NoLineArg, pos_a, pos_b, pre, post)

\* cmd.undo(doc)
CommandUndo(cmd, d) ==
  CASE cmd.kind = "insert" ->
         IF cmd.line.line_id \notin DOMAIN d.index
         THEN Raw(d.lines, d.index, "KeyError")
         ELSE raw_remove_line(d, cmd.line.line_id)
    [] cmd.kind = "remove" -> raw_insert_line(d, cmd.position, cmd.line)
    [] cmd.kind = "replace" ->
         IF cmd.new_line.line_id \notin DOMAIN d.index
         THEN Raw(d.lines, d.index, "KeyError")
         ELSE raw_replace_line(d, cmd.new_line.line_id, cmd.old_line)
    [] cmd.kind = "swap" ->
         IF ListPlace(d.lines, cmd.pos_a) = 0
         THEN Raw(d.lines, d.index, "IndexError")
         ELSE raw_swap_lines(d, cmd.pos_a, cmd.pos_b)

\* cmd.redo(doc)
CommandRedo(cmd, d) ==
  CASE cmd.kind = "insert" -> raw_insert_line(d, cmd.position, cmd.line)
    [] cmd.kind = "remove" -> raw_remove_line(d, cmd.line.line_id)
    [] cmd.kind = "replace" ->
         IF cmd.old_line.line_id \notin DOMAIN d.index
         THEN Raw(d.lines, d.index, "KeyError")
         ELSE raw_replace_line(d, cmd.old_line.line_id, cmd.new_line)
    [] cmd.kind = "swap" ->
         IF ListPlace(d.lines, cmd.pos_a) = 0
         THEN Raw(d.lines, d.index, "IndexError")
         ELSE raw_swap_lines(d, cmd.pos_a, cmd.pos_b)

\* the last call, for the properties: its name, the exception it raised, and
\* for undo and redo the command it took from its stack
NoCall == [op |-> "none", raised |-> NoError, cmd |-> <<>>]

DocumentCall(op, raised, cmd) == [op |-> op, raised |-> raised, cmd |-> cmd]

\* Document(doc_type, lines=list)
NewDocument(list) ==
  [made |-> TRUE, lines |-> list, index |-> RebuildIndex(list),
   undo_stack |-> <<>>, redo_stack |-> <<>>,
   original |-> list, final |-> list, ops |-> 0, last |-> NoCall]

\* the documents at the start: lines with distinct line_id values
StartLines ==
  {<<>>,
   <<DocumentLine("a", "old")>>,
   <<DocumentLine("a", "old"), DocumentLine("b", "old")>>}

InitDocument ==
  /\ StoreInit
  /\ build = NoBuild
  /\ nqs = NoService
  /\ bus = NoBus
  /\ parse = NoParse
  /\ db = NoDb
  /\ document \in {NewDocument(list) : list \in StartLines}
  /\ session = NoSession
  /\ cache = NoCache
  /\ pure = NoPure
  /\ ctor = NoCtor
  /\ service = NoDocumentService

\* the document after a mutation that raw has carried out: recorded with its
\* command when nothing was raised
Mutated(op, raw, cmd) ==
  IF raw.raised # NoError
  THEN [document EXCEPT !.lines = raw.lines, !.index = raw.index,
                        !.last = DocumentCall(op, raw.raised, <<>>)]
  ELSE [document EXCEPT !.lines = raw.lines, !.index = raw.index,
                        !.undo_stack = Append(@, cmd),
                        !.redo_stack = <<>>,
                        !.final = raw.lines,
                        !.ops = @ + 1,
                        !.last = DocumentCall(op, NoError, <<>>)]

insert_line(position, line) ==
  /\ document.made
  /\ document.ops < MaxOps
  /\ Len(document.lines) < MaxDocLines
  /\ LET raw == raw_insert_line(document, position, line)
     IN document' = Mutated("insert_line", raw,
                            InsertCmd(position, line, document.lines,
                                      raw.lines))
  /\ UNCHANGED <<line_nets, net_lines, doc, last, before, build, nqs, bus,
                 parse, db, session,
                 cache, pure, ctor, service>>

remove_line(line_id) ==
  /\ document.made
  /\ document.ops < MaxOps
  /\ LET raw == raw_remove_line(document, line_id)
         pos == IF line_id \in DOMAIN document.index
                THEN document.index[line_id] ELSE 0
         p == ListPlace(document.lines, pos)
         removed == IF p = 0 THEN NoLineArg ELSE document.lines[p]
     IN document' = Mutated("remove_line", raw,
                            RemoveCmd(pos, removed, document.lines,
                                      raw.lines))
  /\ UNCHANGED <<line_nets, net_lines, doc, last, before, build, nqs, bus,
                 parse, db, session,
                 cache, pure, ctor, service>>

replace_line(line_id, new_line) ==
  /\ document.made
  /\ document.ops < MaxOps
  /\ LET pos == IF line_id \in DOMAIN document.index
                THEN document.index[line_id] ELSE 0
         p == ListPlace(document.lines, pos)
         raw == IF line_id \notin DOMAIN document.index
                THEN Raw(document.lines, document.index, "KeyError")
                ELSE IF p = 0
                THEN Raw(document.lines, document.index, "IndexError")
                ELSE raw_replace_line(document, line_id, new_line)
         old_line == IF p = 0 THEN NoLineArg ELSE document.lines[p]
     IN document' = Mutated("replace_line", raw,
                            ReplaceCmd(old_line, new_line, document.lines,
                                       raw.lines))
  /\ UNCHANGED <<line_nets, net_lines, doc, last, before, build, nqs, bus,
                 parse, db, session,
                 cache, pure, ctor, service>>

swap_lines(pos_a, pos_b) ==
  /\ document.made
  /\ document.ops < MaxOps
  /\ LET raw == IF pos_a = pos_b
                THEN Raw(document.lines, document.index, "ValueError")
                ELSE raw_swap_lines(document, pos_a, pos_b)
     IN document' = Mutated("swap_lines", raw,
                            SwapCmd(pos_a, pos_b, document.lines, raw.lines))
  /\ UNCHANGED <<line_nets, net_lines, doc, last, before, build, nqs, bus,
                 parse, db, session,
                 cache, pure, ctor, service>>

\* undo(): None on an empty stack; the command is popped before it runs and
\* pushed on the redo stack after it has run
undo ==
  /\ document.made
  /\ document' =
       IF document.undo_stack = <<>>
       THEN [document EXCEPT !.last = DocumentCall("undo", NoError, <<>>)]
       ELSE LET cmd == document.undo_stack[Len(document.undo_stack)]
                rest == SubSeq(document.undo_stack, 1,
                               Len(document.undo_stack) - 1)
                raw == CommandUndo(cmd, document)
            IN [document EXCEPT
                  !.lines = raw.lines, !.index = raw.index,
                  !.undo_stack = rest,
                  !.redo_stack = IF raw.raised = NoError
                                 THEN Append(@, cmd) ELSE @,
                  !.last = DocumentCall("undo", raw.raised, <<cmd>>)]
  /\ UNCHANGED <<line_nets, net_lines, doc, last, before, build, nqs, bus,
                 parse, db, session,
                 cache, pure, ctor, service>>

\* redo(): the same from the redo stack to the undo stack
redo ==
  /\ document.made
  /\ document' =
       IF document.redo_stack = <<>>
       THEN [document EXCEPT !.last = DocumentCall("redo", NoError, <<>>)]
       ELSE LET cmd == document.redo_stack[Len(document.redo_stack)]
                rest == SubSeq(document.redo_stack, 1,
                               Len(document.redo_stack) - 1)
                raw == CommandRedo(cmd, document)
            IN [document EXCEPT
                  !.lines = raw.lines, !.index = raw.index,
                  !.redo_stack = rest,
                  !.undo_stack = IF raw.raised = NoError
                                 THEN Append(@, cmd) ELSE @,
                  !.last = DocumentCall("redo", raw.raised, <<cmd>>)]
  /\ UNCHANGED <<line_nets, net_lines, doc, last, before, build, nqs, bus,
                 parse, db, session,
                 cache, pure, ctor, service>>

NextDocument ==
  \/ \E position \in Positions, line \in NewLines :
       insert_line(position, line)
  \/ \E line_id \in LineIds : remove_line(line_id)
  \/ \E line_id \in LineIds, new_line \in NewLines :
       replace_line(line_id, new_line)
  \/ \E pos_a \in Positions, pos_b \in Positions : swap_lines(pos_a, pos_b)
  \/ undo
  \/ redo

SpecDocument == InitDocument /\ [][NextDocument]_vars

(***************************************************************************)
(* Properties of undo and redo, checked under SpecDocument.                *)
(***************************************************************************)

\* the last call was an undo or a redo that took a command from its stack
Took(op) == document.last.op = op /\ document.last.cmd # <<>>

\* an undo has restored the lines that preceded the mutation of its command
UndoRestores ==
  Took("undo") =>
    /\ document.last.raised = NoError
    /\ document.lines = document.last.cmd[1].pre

\* a redo has restored the lines that followed the mutation of its command
RedoRestores ==
  Took("redo") =>
    /\ document.last.raised = NoError
    /\ document.lines = document.last.cmd[1].post

\* after a call that raised nothing: with every recorded mutation undone the
\* lines are the original ones, with none of them undone the final ones
EndsRestored ==
  document.last.raised = NoError =>
    /\ document.undo_stack = <<>> /\ document.redo_stack # <<>> =>
         document.lines = document.original
    /\ document.redo_stack = <<>> /\ document.undo_stack # <<>> =>
         document.lines = document.final

\* C29: for every recorded mutation that succeeded, undo() restores the
\* exact line sequence that preceded it and a following redo() the exact
\* sequence that followed it; n mutations and n undos give the original
\* sequence, and n redos then give the final one.
C29_UndoRedoRestore ==
  document.made => UndoRestores /\ RedoRestores /\ EndsRestored

\* two recorded mutations were undone and redone
C29_Witness ==
  /\ document.made
  /\ Took("redo")
  /\ Len(document.undo_stack) = 2
  /\ document.redo_stack = <<>>
  /\ document.lines # document.original

(***************************************************************************)
(* MutexEditSessionState: the mutexed and the active entries of a mutex    *)
(* edit session.  An optional template name is <<>> for None and <<t>> for *)
(* the name t.                                                             *)
(***************************************************************************)

\* the largest number of entries of one entry set
MaxEntries == 2

\* the nets an entry resolves to
MutexNets == {"n1", "n2"}

\* the net names of the exact entries and the patterns of the regex ones
MutexNetNames(regex_mode) == IF regex_mode THEN {"n.*"} ELSE {"n1", "n2"}

\* Optional[str] template names
MutexTemplates == {NoValue, <<"T1">>, <<"T2">>}

\* MutexEntry(net_name, regex_mode, template_name, matches)
MutexEntries ==
  UNION {{[net_name |-> net_name, regex_mode |-> regex_mode,
           template_name |-> template_name, matches |-> matches] :
            net_name \in MutexNetNames(regex_mode),
            template_name \in MutexTemplates,
            matches \in SUBSET MutexNets} : regex_mode \in BOOLEAN}

\* MutexEntry.intersects
Intersects(entry, other) == entry.matches \cap other.matches # {}

\* the last call, for the properties: its name and the exception it raised
SessionCall(op, raised) == [op |-> op, raised |-> raised]

\* MutexEditSessionState(session_id)
NewSession ==
  [made |-> TRUE, mutexed |-> {}, active |-> {}, loading |-> FALSE,
   last |-> SessionCall("none", NoError)]

InitSession ==
  /\ StoreInit
  /\ build = NoBuild
  /\ nqs = NoService
  /\ bus = NoBus
  /\ parse = NoParse
  /\ db = NoDb
  /\ document = NoDocument
  /\ session = NewSession
  /\ cache = NoCache
  /\ pure = NoPure
  /\ ctor = NoCtor
  /\ service = NoDocumentService

\* the entries next(iter(self._mutexed)) can give: any entry of the set,
\* by the order in which the set happens to iterate; NoValue for the empty
\* set
FirstOf(mutexed) ==
  IF mutexed = {} THEN {NoValue} ELSE {<<entry>> : entry \in mutexed}

\* the template property: None for the empty set
SessionTemplate(first) ==
  IF first = NoValue THEN NoValue ELSE first[1].template_name

\* the regex_mode property: None for the empty set
SessionRegexMode(first) ==
  IF first = NoValue THEN NoValue ELSE <<first[1].regex_mode>>

\* the exception add_mutexed raises for an entry, NoError when it adds it
AddMutexedRaises(s, entry, first) ==
  IF entry \in s.mutexed THEN "DuplicateEntryError"
  ELSE IF SessionTemplate(first) # NoValue
          /\ entry.template_name # SessionTemplate(first)
  THEN "TemplateMismatchError"
  ELSE IF ~s.loading /\ entry.matches = {} THEN "NoMatchesError"
  ELSE IF SessionRegexMode(first) # NoValue
          /\ <<entry.regex_mode>> # SessionRegexMode(first)
  THEN "RegexModeMismatchError"
  ELSE IF \E existing \in s.mutexed : Intersects(entry, existing)
  THEN "IntersectionError"
  ELSE NoError

\* the exception add_active raises, NoError when it adds the entry;
\* an entry that no mutexed entry covers goes through add_mutexed
AddActiveRaises(s, entry, first) ==
  IF entry \in s.active THEN "DuplicateEntryError"
  ELSE IF entry.regex_mode THEN "ActiveRegexError"
  ELSE IF entry.matches = {} THEN "NoMatchesError"
  ELSE IF Cardinality(entry.matches) # 1 THEN "ActiveMultipleMatchesError"
  ELSE IF \E covering \in s.mutexed : entry.matches \subseteq covering.matches
  THEN NoError
  ELSE IF SessionRegexMode(first) = <<TRUE>> THEN "EntryNotFoundError"
  ELSE AddMutexedRaises(s, entry, first)

\* whether add_active calls add_mutexed for the entry
Uncovered(s, entry) ==
  ~\E covering \in s.mutexed : entry.matches \subseteq covering.matches

add_mutexed(entry) ==
  /\ session.made
  /\ Cardinality(session.mutexed) < MaxEntries
  /\ \E first \in FirstOf(session.mutexed) :
       LET raised == AddMutexedRaises(session, entry, first)
       IN session' =
            [session EXCEPT
               !.mutexed = IF raised = NoError THEN @ \cup {entry} ELSE @,
               !.last = SessionCall("add_mutexed", raised)]
  /\ UNCHANGED <<line_nets, net_lines, doc, last, before, build, nqs, bus,
                 parse, db, document,
                 cache, pure, ctor, service>>

add_active(entry) ==
  /\ session.made
  /\ Cardinality(session.mutexed) < MaxEntries
  /\ Cardinality(session.active) < MaxEntries
  /\ \E first \in FirstOf(session.mutexed) :
       LET raised == AddActiveRaises(session, entry, first)
       IN session' =
            [session EXCEPT
               !.mutexed = IF raised = NoError /\ Uncovered(session, entry)
                           THEN @ \cup {entry} ELSE @,
               !.active = IF raised = NoError THEN @ \cup {entry} ELSE @,
               !.last = SessionCall("add_active", raised)]
  /\ UNCHANGED <<line_nets, net_lines, doc, last, before, build, nqs, bus,
                 parse, db, document,
                 cache, pure, ctor, service>>

remove_mutexed(entry) ==
  /\ session.made
  /\ session' =
       IF entry \notin session.mutexed
       THEN [session EXCEPT
               !.last = SessionCall("remove_mutexed", "EntryNotFoundError")]
       ELSE [session EXCEPT
               !.active = {active_entry \in @ :
                             ~Intersects(entry, active_entry)},
               !.mutexed = @ \ {entry},
               !.last = SessionCall("remove_mutexed", NoError)]
  /\ UNCHANGED <<line_nets, net_lines, doc, last, before, build, nqs, bus,
                 parse, db, document,
                 cache, pure, ctor, service>>

remove_active(entry) ==
  /\ session.made
  /\ session' =
       IF entry \notin session.active
       THEN [session EXCEPT
               !.last = SessionCall("remove_active", "EntryNotFoundError")]
       ELSE [session EXCEPT
               !.active = @ \ {entry},
               !.last = SessionCall("remove_active", NoError)]
  /\ UNCHANGED <<line_nets, net_lines, doc, last, before, build, nqs, bus,
                 parse, db, document,
                 cache, pure, ctor, service>>

\* `with session.loading():` is entered
LoadingEnter ==
  /\ session.made
  /\ ~session.loading
  /\ session' = [session EXCEPT !.loading = TRUE]
  /\ UNCHANGED <<line_nets, net_lines, doc, last, before, build, nqs, bus,
                 parse, db, document,
                 cache, pure, ctor, service>>

\* the with block is left
LoadingExit ==
  /\ session.made
  /\ session.loading
  /\ session' = [session EXCEPT !.loading = FALSE]
  /\ UNCHANGED <<line_nets, net_lines, doc, last, before, build, nqs, bus,
                 parse, db, document,
                 cache, pure, ctor, service>>

NextSession ==
  \/ \E entry \in MutexEntries : add_mutexed(entry)
  \/ \E entry \in MutexEntries : add_active(entry)
  \/ \E entry \in MutexEntries : remove_mutexed(entry)
  \/ \E entry \in MutexEntries : remove_active(entry)
  \/ LoadingEnter
  \/ LoadingExit

SpecSession == InitSession /\ [][NextSession]_vars

(***************************************************************************)
(* Properties of the session, checked under SpecSession.                   *)
(***************************************************************************)

\* all mutexed entries have one template and one regex mode
OneTemplateOneMode ==
  \A entry \in session.mutexed, other \in session.mutexed :
    /\ entry.template_name = other.template_name
    /\ entry.regex_mode = other.regex_mode

\* distinct mutexed entries have no matched net in common
MatchesDisjoint ==
  \A entry \in session.mutexed, other \in session.mutexed :
    entry # other => ~Intersects(entry, other)

\* every active entry is a non-regex entry of one matched net that a
\* mutexed entry covers
ActiveCovered ==
  \A entry \in session.active :
    /\ ~entry.regex_mode
    /\ Cardinality(entry.matches) = 1
    /\ \E covering \in session.mutexed :
         entry.matches \subseteq covering.matches

\* the entry sets are as the invariants require
SetsWellFormed ==
  session.made => OneTemplateOneMode /\ MatchesDisjoint /\ ActiveCovered

\* a call that raises leaves both entry sets as they were
RaiseKeepsSets ==
  (session.made /\ session'.last.raised # NoError) =>
    /\ session'.mutexed = session.mutexed
    /\ session'.active = session.active

\* C30: after any sequence of add_mutexed, add_active, remove_mutexed and
\* remove_active calls, succeeding or raising, all mutexed entries share
\* one template and one regex mode, the match sets of distinct mutexed
\* entries are pairwise disjoint, every active entry is a non-regex entry
\* of exactly one matched net that some mutexed entry covers, and a call
\* that raises leaves both entry sets unchanged.
C30_SessionInvariants == []SetsWellFormed /\ [][RaiseKeepsSets]_vars

\* two mutexed entries and an active one, after a call that raised
C30_Witness ==
  /\ session.made
  /\ Cardinality(session.mutexed) = 2
  /\ session.active # {}
  /\ session.last.raised # NoError

(***************************************************************************)
(* The lru_cache of _resolve_tpl_net_to_top_ids.  functools.lru_cache      *)
(* decorates the function of the class, so the resolvers of a process      *)
(* share one cache whose keys are (self, tpl, net); cache holds its keys   *)
(* from the least to the most recently used.  The value of a key is what   *)
(* ResolveTplNetToTopIds gives for it and is left out here.                *)
(***************************************************************************)

\* stands for maxsize=8192 of the lru_cache of _resolve_tpl_net_to_top_ids
TopCacheMaxSize == 2

\* the resolvers of the process
MaxResolvers == 2

Resolvers == 1 .. MaxResolvers

\* the (template, canonical net) pairs that are resolved
CachePairs == {<<"top", "a">>, <<"d", "n1">>, <<"d", "n2">>}

\* the resolvers after __init__: all open, nothing cached; resolved holds
\* the keys each open resolver has resolved, for the properties
NewCache ==
  [made |-> TRUE, open |-> Resolvers, entries |-> <<>>, resolved |-> {},
   last |-> "__init__"]

InitCache ==
  /\ StoreInit
  /\ build = NoBuild
  /\ nqs = NoService
  /\ bus = NoBus
  /\ parse = NoParse
  /\ db = NoDb
  /\ document = NoDocument
  /\ session = NoSession
  /\ cache = NewCache
  /\ pure = NoPure
  /\ ctor = NoCtor
  /\ service = NoDocumentService

\* a sequence without the elements equal to x
Without(seq, x) == SelectSeq(seq, LAMBDA y : y # x)

\* a call through lru_cache(maxsize): a hit makes the key the most recently
\* used, a miss adds it and, the cache being full, drops the least recently
\* used key
LruCall(entries, key, maxsize) ==
  IF key \in Elems(entries) THEN Append(Without(entries, key), key)
  ELSE IF Len(entries) >= maxsize THEN Append(Tail(entries), key)
  ELSE Append(entries, key)

\* _resolve_tpl_net_to_top_ids.cache_clear(): the cache of the function
LruCacheClear(entries, self) == <<>>

\* self._resolve_tpl_net_to_top_ids(tpl, net)
CacheResolve(self, pair) ==
  /\ cache.made
  /\ self \in cache.open
  /\ cache' = [cache EXCEPT
                 !.entries = LruCall(@, <<self, pair[1], pair[2]>>,
                                     TopCacheMaxSize),
                 !.resolved = @ \cup {<<self, pair[1], pair[2]>>},
                 !.last = "resolve"]
  /\ UNCHANGED <<line_nets, net_lines, doc, last, before, build, nqs, bus,
                 parse, db, document, session, pure, ctor, service>>

\* self.close(): _cleanup_database sets _is_closed and clears the caches
CacheTeardown(self) ==
  /\ cache.made
  /\ self \in cache.open
  /\ cache' = [cache EXCEPT
                 !.open = @ \ {self},
                 !.entries = LruCacheClear(@, self),
                 !.resolved = {key \in @ : key[1] # self},
                 !.last = "close"]
  /\ UNCHANGED <<line_nets, net_lines, doc, last, before, build, nqs, bus,
                 parse, db, document, session, pure, ctor, service>>

NextCache ==
  \/ \E self \in Resolvers, pair \in CachePairs : CacheResolve(self, pair)
  \/ \E self \in Resolvers : CacheTeardown(self)

SpecCache == InitCache /\ [][NextCache]_vars

(***************************************************************************)
(* Properties of the cache, checked under SpecCache.                       *)
(***************************************************************************)

\* C31: once a (template, net) pair has been resolved, its cache entry
\* stays until its resolver is torn down, however many other pairs are
\* resolved afterwards.
C31_NoEviction ==
  [][cache.made =>
       \A key \in cache.resolved :
         (key \in Elems(cache.entries) /\ key[1] \in cache'.open)
           => key \in Elems(cache'.entries)]_vars

\* one resolver has resolved more pairs than the cache holds
C31_Witness ==
  /\ cache.made
  /\ cache.open = Resolvers
  /\ Len(cache.entries) = TopCacheMaxSize
  /\ Cardinality({key \in cache.resolved : key[1] = 1}) > TopCacheMaxSize

\* the keys of a resolver in the cache
KeysOf(entries, self) == {key \in Elems(entries) : key[1] = self}

\* C35: tearing a resolver down empties its caches and leaves the cached
\* entries of every other live resolver as they were.
C35_TeardownOwnCache ==
  [][(cache.made /\ cache'.last = "close" /\ cache'.open # cache.open) =>
       /\ \A self \in cache.open \ cache'.open :
            KeysOf(cache'.entries, self) = {}
       /\ \A other \in cache'.open :
            KeysOf(cache'.entries, other) = KeysOf(cache.entries, other)]_vars

\* a resolver was torn down while another one had cached entries
C35_Witness ==
  /\ cache.made
  /\ cache.last = "close"
  /\ cache.open # {}
  /\ cache.open # Resolvers
  /\ \E key \in cache.resolved : key[1] \in cache.open

(***************************************************************************)
(* _find, one iteration of its while loop per step.  pure holds the        *)
(* alias_map and the name it was called with, the local n and visited,     *)
(* the alias_map[n] lookups made so far and, once it has returned, the     *)
(* name it returned.                                                       *)
(***************************************************************************)

\* the number of net names that can be keys and values of an alias map
MaxFindNames == 3

FindNames == SubSeq(<<"a", "b", "c", "d", "e">>, 1, MaxFindNames)

\* the alias maps: any keys, any values, cycles included
FindMaps ==
  UNION {[keys -> Elems(FindNames)] : keys \in SUBSET Elems(FindNames)}

\* _find(n) is entered
FindStart(map, n) ==
  [op |-> "_find", done |-> FALSE, map |-> map, name |-> n, n |-> n,
   visited |-> {}, lookups |-> 0, result |-> NoName]

\* the calls: a map and a name, which need not be a key of the map
InitFind ==
  /\ StoreInit
  /\ build = NoBuild
  /\ nqs = NoService
  /\ bus = NoBus
  /\ parse = NoParse
  /\ db = NoDb
  /\ document = NoDocument
  /\ session = NoSession
  /\ cache = NoCache
  /\ pure \in {FindStart(map, n) :
                 map \in FindMaps, n \in Elems(FindNames) \cup {"z"}}
  /\ ctor = NoCtor
  /\ service = NoDocumentService

\* a mutation of FindGoesOn: no visited set
FindGoesOnUnguarded(map, n, visited) == AliasGet(map, n) # n

\* whether the loop body runs: `while alias_map.get(n, n) != n` and not
\* `if n in visited: break`
FindGoesOn(map, n, visited) == AliasGet(map, n) # n /\ n \notin visited

\* the loop body: visited.add(n); n = alias_map[n]
FindLoop ==
  /\ pure.op = "_find"
  /\ ~pure.done
  /\ pure.lookups <= MaxFindNames
  /\ FindGoesOn(pure.map, pure.n, pure.visited)
  /\ pure' = [pure EXCEPT !.visited = @ \cup {pure.n},
                          !.n = pure.map[pure.n],
                          !.lookups = @ + 1]
  /\ UNCHANGED <<line_nets, net_lines, doc, last, before, build, nqs, bus,
                 parse, db, document, session, cache, ctor, service>>

\* return n
FindReturn ==
  /\ pure.op = "_find"
  /\ ~pure.done
  /\ ~FindGoesOn(pure.map, pure.n, pure.visited)
  /\ pure' = [pure EXCEPT !.done = TRUE, !.result = pure.n]
  /\ UNCHANGED <<line_nets, net_lines, doc, last, before, build, nqs, bus,
                 parse, db, document, session, cache, ctor, service>>

NextFind == FindLoop \/ FindReturn

\* the loop is not suspended for ever
SpecFind == InitFind /\ [][NextFind]_vars /\ WF_vars(NextFind)

(***************************************************************************)
(* Properties of _find, checked under SpecFind.                            *)
(***************************************************************************)

RECURSIVE Chase(_, _, _)
\* the name reached from n by k times alias_map.get(n, n)
Chase(map, n, k) ==
  IF k = 0 THEN n ELSE Chase(map, AliasGet(map, n), k - 1)

\* no key comes back to itself through other keys
CycleFree(map) ==
  \A key \in DOMAIN map :
    map[key] # key =>
      \A k \in 1 .. Cardinality(DOMAIN map) : Chase(map, key, k) # key

\* at most one lookup per key of the map
FindBounded ==
  pure.op = "_find" => pure.lookups <= Cardinality(DOMAIN pure.map)

\* on a map without a cycle the name returned is the fixed point reached
\* from the name given
FindFixedPoint ==
  (pure.op = "_find" /\ pure.done /\ CycleFree(pure.map)) =>
    /\ AliasGet(pure.map, pure.result) = pure.result
    /\ pure.result = Chase(pure.map, pure.name, Cardinality(DOMAIN pure.map))

\* C32: find(name) terminates for every alias map, one with a cycle
\* included, after at most one lookup per distinct key of the map, and on a
\* map without a cycle it returns the fixed point reached from name.
C32_FindTerminates ==
  /\ []FindBounded
  /\ []FindFixedPoint
  /\ <>(pure.op = "_find" /\ pure.done)

\* _find has returned from a cycle through all the keys, after one lookup
\* for each of them
C32_Witness ==
  /\ pure.op = "_find"
  /\ pure.done
  /\ ~CycleFree(pure.map)
  /\ pure.lookups = MaxFindNames
  /\ pure.result = pure.name

(***************************************************************************)
(* The control flow of SpiceNetlistQueryService.__init__ over a template   *)
(* graph: _build_template_data for every template, then the traverse of    *)
(* _build_instance_paths from the top cell.  ctor holds, for every         *)
(* template, the subckt_name of its instances in order (graph), the        *)
(* templates __init__ has still to build (todo), the frames of the         *)
(* recursion, each with its template, the index of the instance its loop   *)
(* is at and its path prefix (stack), and _template_instances.  What the   *)
(* loops compute for the alias maps is in BuildTemplateData.               *)
(***************************************************************************)

\* the largest number of instances of one template
MaxInstances == 2

\* stands for the recursion limit of the interpreter, past which a call
\* raises RecursionError
RecursionLimit == 3

\* the templates of the file
CtorTemplates == {"top", "blk"}

\* the names after an instance's nets: a template or a name the file does
\* not define
CtorNames == CtorTemplates \cup {"nob"}

\* the instance lists of a template
InstanceLists ==
  UNION {[1 .. k -> CtorNames] : k \in 0 .. MaxInstances}

\* a frame of _build_template_data or of traverse
Frame(template, prefix) == [template |-> template, i |-> 1, prefix |-> prefix]

\* __init__ has parsed the file
CtorStart(graph) ==
  [phase |-> "alias", graph |-> graph, todo |-> CtorTemplates,
   stack |-> <<>>, template_instances |-> [t \in CtorTemplates |-> <<>>]]

\* the files the parser accepts: any instance lists
InitCtor ==
  /\ StoreInit
  /\ build = NoBuild
  /\ nqs = NoService
  /\ bus = NoBus
  /\ parse = NoParse
  /\ db = NoDb
  /\ document = NoDocument
  /\ session = NoSession
  /\ cache = NoCache
  /\ pure = NoPure
  /\ ctor \in {CtorStart(graph) : graph \in [CtorTemplates -> InstanceLists]}
  /\ service = NoDocumentService

\* the frame on top of the stack
TopFrame == ctor.stack[Len(ctor.stack)]

\* the stack after the top frame has gone on to its next instance
Advanced(stack) == [stack EXCEPT ![Len(stack)].i = @ + 1]

\* a call that finds the stack at the recursion limit raises
CallRaises(stack) == Len(stack) >= RecursionLimit

\* `for tpl in self._all_templates: _build_template_data(self._subckts, tpl)`
BuildCall(tpl) ==
  /\ ctor.phase = "alias"
  /\ ctor.stack = <<>>
  /\ tpl \in ctor.todo
  /\ ctor' = [ctor EXCEPT !.todo = @ \ {tpl},
                          !.stack = <<Frame(tpl, <<>>)>>]
  /\ UNCHANGED <<line_nets, net_lines, doc, last, before, build, nqs, bus,
                 parse, db, document, session, cache, pure, service>>

\* one instance of the loop of _build_template_data: an undefined child is
\* skipped, a defined one is built by a recursive call
BuildInstanceCall ==
  /\ ctor.phase = "alias"
  /\ ctor.stack # <<>>
  /\ TopFrame.i <= Len(ctor.graph[TopFrame.template])
  /\ LET child == ctor.graph[TopFrame.template][TopFrame.i]
     IN ctor' =
          IF child \notin CtorTemplates
          THEN [ctor EXCEPT !.stack = Advanced(@)]
          ELSE IF CallRaises(ctor.stack)
          THEN [ctor EXCEPT !.phase = "RecursionError"]
          ELSE [ctor EXCEPT !.stack = Append(@, Frame(child, <<>>))]
  /\ UNCHANGED <<line_nets, net_lines, doc, last, before, build, nqs, bus,
                 parse, db, document, session, cache, pure, service>>

\* _build_template_data returns: its caller goes on with its next instance,
\* and __init__ goes on to _build_instance_paths after the last template
BuildReturn ==
  /\ ctor.phase = "alias"
  /\ ctor.stack # <<>>
  /\ TopFrame.i > Len(ctor.graph[TopFrame.template])
  /\ ctor' =
       IF Len(ctor.stack) > 1
       THEN [ctor EXCEPT !.stack = Advanced(SubSeq(@, 1, Len(@) - 1))]
       ELSE IF ctor.todo # {}
       THEN [ctor EXCEPT !.stack = <<>>]
       ELSE [ctor EXCEPT !.phase = "paths",
                         !.stack = <<Frame("top", <<>>)>>]
  /\ UNCHANGED <<line_nets, net_lines, doc, last, before, build, nqs, bus,
                 parse, db, document, session, cache, pure, service>>

\* one instance of the loop of traverse: the path of a defined child is
\* appended and the child traversed
TraverseInstance ==
  /\ ctor.phase = "paths"
  /\ ctor.stack # <<>>
  /\ TopFrame.i <= Len(ctor.graph[TopFrame.template])
  /\ LET child == ctor.graph[TopFrame.template][TopFrame.i]
         path == Append(TopFrame.prefix, TopFrame.i)
     IN ctor' =
          IF child \notin CtorTemplates
          THEN [ctor EXCEPT !.stack = Advanced(@)]
          ELSE IF CallRaises(ctor.stack)
          THEN [ctor EXCEPT !.phase = "RecursionError",
                            !.template_instances[child] = Append(@, path)]
          ELSE [ctor EXCEPT !.template_instances[child] = Append(@, path),
                            !.stack = Append(@, Frame(child, path))]
  /\ UNCHANGED <<line_nets, net_lines, doc, last, before, build, nqs, bus,
                 parse, db, document, session, cache, pure, service>>

\* traverse returns; __init__ returns after the traverse of the top cell
TraverseReturn ==
  /\ ctor.phase = "paths"
  /\ ctor.stack # <<>>
  /\ TopFrame.i > Len(ctor.graph[TopFrame.template])
  /\ ctor' =
       IF Len(ctor.stack) > 1
       THEN [ctor EXCEPT !.stack = Advanced(SubSeq(@, 1, Len(@) - 1))]
       ELSE [ctor EXCEPT !.phase = "constructed", !.stack = <<>>]
  /\ UNCHANGED <<line_nets, net_lines, doc, last, before, build, nqs, bus,
                 parse, db, document, session, cache, pure, service>>

NextCtor ==
  \/ \E tpl \in CtorTemplates : BuildCall(tpl)
  \/ BuildInstanceCall
  \/ BuildReturn
  \/ TraverseInstance
  \/ TraverseReturn

\* __init__ is not suspended for ever
SpecCtor == InitCtor /\ [][NextCtor]_vars /\ WF_vars(NextCtor)

(***************************************************************************)
(* Properties of the construction, checked under SpecCtor.                 *)
(***************************************************************************)

\* C33: the construction of the resolver, the recursive alias-map
\* computation and the enumeration of the instance paths, comes to its end
\* for every template graph the parser accepts, one in which a template
\* instantiates itself directly or indirectly included: the resolver is
\* constructed.
C33_ConstructionTerminates ==
  <>(ctor.phase = "constructed")

\* the templates a template instantiates
Children(t) == Elems(ctor.graph[t]) \cap CtorTemplates

\* a template instantiates itself, directly or through the other one
SelfInstantiating ==
  \E t \in CtorTemplates :
    \/ t \in Children(t)
    \/ \E u \in Children(t) : t \in Children(u)

\* the recursion over a self-instantiating template has run to the
\* recursion limit
C33_Witness ==
  /\ ctor.phase = "RecursionError"
  /\ SelfInstantiating
  /\ Len(ctor.stack) = RecursionLimit

(***************************************************************************)
(* NetlistDatabase.match_bus and SpiceNetlistQueryService._match_nets_bus: *)
(* the loop that issues one lookup for every chunk of the expanded names.  *)
(* pure holds the two arguments, the start of the next chunk and the       *)
(* parameters of the lookups issued so far.                                *)
(***************************************************************************)

\* stands for the 900 of SQLITE_MAX_VARS_PER_QUERY
SqliteMaxVarsPerQuery == 3

\* the longest templates list
MaxBusTemplates == 4

\* the longest list of expanded names
MaxExpanded == 6

\* a list of n names
NameList(n) == [i \in 1 .. n |-> i]

\* `max(1, SQLITE_MAX_VARS_PER_QUERY - len(templates))`
available_for_nets(templates) ==
  IF SqliteMaxVarsPerQuery - Len(templates) >= 1
  THEN SqliteMaxVarsPerQuery - Len(templates)
  ELSE 1

\* `expanded[start : start + available_for_nets]`, start counted from 0
Chunk(expanded, start, size) ==
  SubSeq(expanded, start + 1,
         IF start + size <= Len(expanded) THEN start + size ELSE Len(expanded))

\* the call of match_bus; it returns at once with an empty argument
MatchBusStart(templates, expanded) ==
  [op |-> "match_bus", templates |-> templates, expanded |-> expanded,
   start |-> 0, lookups |-> <<>>,
   done |-> templates = <<>> \/ expanded = <<>>]

InitMatchBus ==
  /\ StoreInit
  /\ build = NoBuild
  /\ nqs = NoService
  /\ bus = NoBus
  /\ parse = NoParse
  /\ db = NoDb
  /\ document = NoDocument
  /\ session = NoSession
  /\ cache = NoCache
  /\ pure \in {MatchBusStart(NameList(t), NameList(n)) :
                 t \in 0 .. MaxBusTemplates, n \in 0 .. MaxExpanded}
  /\ ctor = NoCtor
  /\ service = NoDocumentService

\* one turn of `for start in range(0, len(expanded), available_for_nets)`:
\* the lookup binds (*templates, *chunk)
MatchBusLookup ==
  /\ pure.op = "match_bus"
  /\ ~pure.done
  /\ pure.start < Len(pure.expanded)
  /\ LET size == available_for_nets(pure.templates)
         chunk == Chunk(pure.expanded, pure.start, size)
     IN pure' = [pure EXCEPT
                   !.lookups = Append(@, [templates |-> pure.templates,
                                          chunk |-> chunk]),
                   !.start = @ + size]
  /\ UNCHANGED <<line_nets, net_lines, doc, last, before, build, nqs, bus,
                 parse, db, document, session, cache, ctor, service>>

\* the range is exhausted: `return results`
MatchBusReturn ==
  /\ pure.op = "match_bus"
  /\ ~pure.done
  /\ pure.start >= Len(pure.expanded)
  /\ pure' = [pure EXCEPT !.done = TRUE]
  /\ UNCHANGED <<line_nets, net_lines, doc, last, before, build, nqs, bus,
                 parse, db, document, session, cache, ctor, service>>

NextMatchBus ==
  \/ MatchBusLookup
  \/ MatchBusReturn

SpecMatchBus == InitMatchBus /\ [][NextMatchBus]_vars

(***************************************************************************)
(* Properties of match_bus, checked under SpecMatchBus.                    *)
(***************************************************************************)

RECURSIVE ChunksJoined(_)
\* the chunks of the lookups, one after the other
ChunksJoined(lookups) ==
  IF lookups = <<>> THEN <<>>
  ELSE ChunksJoined(SubSeq(lookups, 1, Len(lookups) - 1))
         \o lookups[Len(lookups)].chunk

\* the chunks of the lookups issued so far are the names up to start, and
\* all the names when a call with templates has returned
ChunksCover ==
  /\ ChunksJoined(pure.lookups)
       = SubSeq(pure.expanded, 1, Len(ChunksJoined(pure.lookups)))
  /\ \A i \in 1 .. Len(pure.lookups) : pure.lookups[i].chunk # <<>>
  /\ (pure.done /\ pure.templates # <<>>)
       => ChunksJoined(pure.lookups) = pure.expanded

\* every lookup binds at most the limit
LookupsWithinLimit ==
  \A i \in 1 .. Len(pure.lookups) :
    Len(pure.lookups[i].templates) + Len(pure.lookups[i].chunk)
      <= SqliteMaxVarsPerQuery

\* C34: for any templates list and any list of expanded names, match_bus
\* splits the names into consecutive chunks that together cover every name
\* exactly once, and every lookup it issues binds at most the limit of
\* parameters in total, template parameters and name parameters together.
C34_MatchBusChunks ==
  pure.op = "match_bus" => (ChunksCover /\ LookupsWithinLimit)

\* a lookup of a call whose templates alone reach the limit has been issued
C34_Witness ==
  /\ pure.op = "match_bus"
  /\ Len(pure.templates) >= SqliteMaxVarsPerQuery
  /\ pure.lookups # <<>>
  /\ ~LookupsWithinLimit

(***************************************************************************)
(* Queries next to close(): NetlistDatabase._execute and the               *)
(* _execute_sql_query of the two query services, called by threads that    *)
(* may also call close().  db has a further field, queries, with the calls *)
(* and the outcome of the last query of every thread.                      *)
(***************************************************************************)

\* the largest number of queries of one thread
MaxQueries == 1

\* a thread that has called no query
NoQuery == [calls |-> 0, outcome |-> "none"]

\* the object after __init__, which opens the connection
NewQueryDb(kind) ==
  [queries |-> [t \in Threads |-> NoQuery]] @@ NewDb(kind, TRUE)

InitQuery ==
  /\ StoreInit
  /\ build = NoBuild
  /\ nqs = NoService
  /\ bus = NoBus
  /\ parse = NoParse
  /\ db \in {NewQueryDb(kind) : kind \in Closeables}
  /\ document = NoDocument
  /\ session = NoSession
  /\ cache = NoCache
  /\ pure = NoPure
  /\ ctor = NoCtor
  /\ service = NoDocumentService

\* a call on the connection after its close() raises
\* sqlite3.ProgrammingError, otherwise the rows are fetched
CursorExecute(d) ==
  IF d.conn_closes > 0 THEN "ProgrammingError" ELSE "rows"

\* a thread calls _execute; it goes on to `if self._is_closed:`
QueryCall(t) ==
  /\ db.open
  /\ db.threads[t].pc = "idle"
  /\ db.queries[t].calls < MaxQueries
  /\ db' = [db EXCEPT !.threads[t].pc = "query_if",
                      !.queries[t] = [calls |-> @.calls + 1,
                                      outcome |-> "none"],
                      !.overlapped =
                        @ \/ \E u \in Threads : db.threads[u].pc # "idle"]
  /\ UNCHANGED <<line_nets, net_lines, doc, last, before, build, nqs, bus,
                 parse, document, session, cache, pure, ctor, service>>

\* `if self._is_closed: raise RuntimeError(...)`, read without the lock
QueryIfClosed(t) ==
  /\ db.open
  /\ db.threads[t].pc = "query_if"
  /\ db' = IF db.is_closed
           THEN [db EXCEPT !.threads[t].pc = "idle",
                           !.queries[t].outcome = "RuntimeError"]
           ELSE [db EXCEPT !.threads[t].pc = "query_with"]
  /\ UNCHANGED <<line_nets, net_lines, doc, last, before, build, nqs, bus,
                 parse, document, session, cache, pure, ctor, service>>

\* `with self._db_lock:` of the query
QueryLockAcquire(t) ==
  /\ db.open
  /\ db.threads[t].pc = "query_with"
  /\ db.lock_owner \in {NoThread, t}
  /\ db' = [db EXCEPT !.lock_owner = t, !.threads[t].pc = "query_cursor"]
  /\ UNCHANGED <<line_nets, net_lines, doc, last, before, build, nqs, bus,
                 parse, document, session, cache, pure, ctor, service>>

\* cursor(), execute() and fetchall() on _db_conn, then the end of the with
\* block
QueryExecute(t) ==
  /\ db.open
  /\ db.threads[t].pc = "query_cursor"
  /\ db' = [db EXCEPT !.lock_owner = NoThread,
                      !.threads[t].pc = "idle",
                      !.queries[t].outcome = CursorExecute(db)]
  /\ UNCHANGED <<line_nets, net_lines, doc, last, before, build, nqs, bus,
                 parse, document, session, cache, pure, ctor, service>>

NextQuery ==
  \/ NextClose
  \/ \E t \in Threads : QueryCall(t)
  \/ \E t \in Threads : QueryIfClosed(t)
  \/ \E t \in Threads : QueryLockAcquire(t)
  \/ \E t \in Threads : QueryExecute(t)

SpecQuery == InitQuery /\ [][NextQuery]_vars

(***************************************************************************)
(* Properties of the queries, checked under SpecQuery.                     *)
(***************************************************************************)

\* C36: when close() runs concurrently with a query on the same store or
\* resolver, the query either completes against the still-open handle or
\* fails with the 'closed' RuntimeError: no query executes on a handle that
\* has been released.
C36_QueryOpenOrClosedError ==
  db.open =>
    \A t \in Threads : db.queries[t].outcome \in {"none", "rows", "RuntimeError"}

\* a query that began while another thread was inside close(), or the other
\* way round, reached the connection after its release
C36_Witness ==
  /\ db.open
  /\ db.overlapped
  /\ db.is_closed
  /\ \E t \in Threads : db.queries[t].outcome = "ProgrammingError"

(***************************************************************************)
(* The Document with all its operations: the recorded mutations, undo and  *)
(* redo of NextDocument, and append_line.                                  *)
(***************************************************************************)

\* append_line: not recorded for undo
append_line(line) ==
  /\ document.made
  /\ Len(document.lines) < MaxDocLines
  /\ document' =
       IF line.line_id \in DOMAIN document.index
       THEN [document EXCEPT
               !.last = DocumentCall("append_line", "ValueError", <<>>)]
       ELSE [document EXCEPT
               !.lines = Append(@, line),
               !.index = [lid \in DOMAIN @ \cup {line.line_id} |->
                            IF lid = line.line_id
                            THEN Len(document.lines)
                            ELSE @[lid]],
               !.last = DocumentCall("append_line", NoError, <<>>)]
  /\ UNCHANGED <<line_nets, net_lines, doc, last, before, build, nqs, bus,
                 parse, db, session, cache, pure, ctor, service>>

NextDocumentAll ==
  \/ NextDocument
  \/ \E line \in NewLines : append_line(line)

SpecDocumentAll == InitDocument /\ [][NextDocumentAll]_vars

(***************************************************************************)
(* Properties of the Document, checked under SpecDocumentAll.              *)
(***************************************************************************)

\* the keys of _index are the line_id values of the lines
IndexKeys ==
  DOMAIN document.index
    = {document.lines[i].line_id : i \in DOMAIN document.lines}

\* _index[_lines[p].line_id] == p for every position p, counted from 0
IndexPositions ==
  \A i \in DOMAIN document.lines :
    /\ document.lines[i].line_id \in DOMAIN document.index
    /\ document.index[document.lines[i].line_id] = i - 1

\* the line_id values of the lines are pairwise distinct
LineIdsDistinct ==
  \A i, j \in DOMAIN document.lines :
    document.lines[i].line_id = document.lines[j].line_id => i = j

\* C37: after any sequence of Document operations (append_line,
\* insert_line at any integer position, remove_line, replace_line with any
\* new line, swap_lines, undo, redo), calls that raise included,
\* _index[_lines[p].line_id] == p for every position p and _index has no
\* other keys, so the line ids of the document are pairwise distinct.
C37_IndexConsistent ==
  document.made => (IndexPositions /\ IndexKeys /\ LineIdsDistinct)

\* an insert_line has returned without an exception and left a line whose
\* index entry is not its position
C37_Witness ==
  /\ document.made
  /\ document.last.op = "insert_line"
  /\ document.last.raised = NoError
  /\ ~IndexPositions

(***************************************************************************)
(* DocumentService over one loaded document: the Document, its             *)
(* ConflictDetector and the edit controller of its type.  A line is its    *)
(* line_id and its raw_text; the raw_text is the sequence of its words, a  *)
(* leading "#" making it a comment, and data is what parse_line reads from *)
(* it, which is also what the serializer wrote it from.                    *)
(***************************************************************************)

\* the largest number of recorded mutations of the service
MaxServiceOps == 2

\* the line_id values in the order uuid4 hands them out
ServiceIds == <<"a", "b", "c", "d">>

\* the texts that carry data, and the nets they resolve to: none for "q"
DataTexts == {<<"n1">>, <<"n12">>, <<"q">>}

resolve_line_nets(raw_text) ==
  CASE raw_text = <<"n1">> -> {"n1"}
    [] raw_text = <<"n12">> -> {"n1", "n2"}
    [] OTHER -> {}

\* line.data is not None
HasData(raw_text) == raw_text \in DataTexts

\* handler.is_comment(raw_text)
is_comment(raw_text) == raw_text # <<>> /\ raw_text[1] = "#"

\* the ConflictDetector as a value: _line_nets and _net_lines of its store
ServiceDetector(s) == [ln |-> s.ln, nl |-> s.nl]

\* detector.rebuild(lines): of two lines with one line_id the later one
\* that has nets is kept
ServiceRebuild(lines) ==
  LET with_nets == {i \in DOMAIN lines :
                      /\ HasData(lines[i].raw_text)
                      /\ resolve_line_nets(lines[i].raw_text) # {}}
      last_of(line_id) ==
        CHOOSE i \in with_nets :
          /\ lines[i].line_id = line_id
          /\ \A j \in with_nets : lines[j].line_id = line_id => j <= i
  IN ServiceDetector(StoreBuildFromLines(
       [line_id \in {lines[i].line_id : i \in with_nets} |->
          resolve_line_nets(lines[last_of(line_id)].raw_text)]))

\* detector.update_line(line_id, data) for the data of a line
ServiceUpdateLine(detector, line_id, raw_text) ==
  LET s == [ln |-> detector.ln, nl |-> detector.nl, raised |-> FALSE]
  IN ServiceDetector(IF HasData(raw_text)
                     THEN StoreUpdateLine(s, line_id,
                                          resolve_line_nets(raw_text))
                     ELSE StoreRemoveLine(s, line_id))

\* detector.remove_line(line_id)
ServiceRemoveLine(detector, line_id) ==
  ServiceDetector(StoreRemoveLine(
    [ln |-> detector.ln, nl |-> detector.nl, raised |-> FALSE], line_id))

\* the last call of the service: its name, the exception it raised, and for
\* a commit_edit that replaced a line the line_id of that line and the id
\* of the session whose data it took
DocumentServiceCall(op, raised, line_id, session_id) ==
  [op |-> op, raised |-> raised, line_id |-> line_id,
   session_id |-> session_id]

\* the controller after __init__: a session with no id and no fields
NewController == [session_id |-> "", raw_text |-> <<"q">>]

\* load(): the document is read and the conflict state rebuilt
LoadedService(list) ==
  [made |-> TRUE, lines |-> list, index |-> RebuildIndex(list),
   undo_stack |-> <<>>, redo_stack |-> <<>>,
   detector |-> ServiceRebuild(list), ctrl |-> NewController,
   uuids |-> Len(list), ops |-> 0,
   last |-> DocumentServiceCall("load", NoError, "", "")]

\* the files that are loaded
LoadedLines ==
  {<<>>,
   <<DocumentLine("a", <<"n1">>)>>,
   <<DocumentLine("a", <<"n1">>), DocumentLine("b", <<"n12">>)>>,
   <<DocumentLine("a", <<"#", "n1">>), DocumentLine("b", <<"n1">>)>>}

InitService ==
  /\ StoreInit
  /\ build = NoBuild
  /\ nqs = NoService
  /\ bus = NoBus
  /\ parse = NoParse
  /\ db = NoDb
  /\ document = NoDocument
  /\ session = NoSession
  /\ cache = NoCache
  /\ pure = NoPure
  /\ ctor = NoCtor
  /\ service \in {LoadedService(list) : list \in LoadedLines}

\* the line a command does not have
NoServiceLine == DocumentLine("", <<>>)

\* the Document after a mutation that raw has carried out, recorded with its
\* command when nothing was raised
ServiceMutated(raw, cmd) ==
  IF raw.raised # NoError
  THEN [service EXCEPT !.lines = raw.lines, !.index = raw.index]
  ELSE [service EXCEPT !.lines = raw.lines, !.index = raw.index,
                       !.undo_stack = Append(@, cmd),
                       !.redo_stack = <<>>,
                       !.ops = @ + 1]

\* Document.replace_line(line_id, new_line) for the line at place p
DocumentReplace(p, new_line) ==
  LET old_line == service.lines[p]
      line_id == old_line.line_id
      pos == IF line_id \in DOMAIN service.index
             THEN service.index[line_id] ELSE 0
      raw == IF line_id \notin DOMAIN service.index
             THEN Raw(service.lines, service.index, "KeyError")
             ELSE IF ListPlace(service.lines, pos) = 0
             THEN Raw(service.lines, service.index, "IndexError")
             ELSE raw_replace_line(service, line_id, new_line)
      got == IF ListPlace(service.lines, pos) = 0 THEN NoServiceLine
             ELSE service.lines[ListPlace(service.lines, pos)]
  IN [raw |-> raw,
      doc |-> ServiceMutated(raw,
                Command("replace", 0, NoServiceLine, got, new_line, 0, 0,
                        <<>>, <<>>))]

\* a call that raised before it changed anything
ServiceRaised(op, raised) ==
  [service EXCEPT !.last = DocumentServiceCall(op, raised, "", "")]

\* hydrate_session(doc_id, position, fields): the session of the controller
\* is replaced by one for the line at position; fields is empty for None
hydrate_session(position, fields) ==
  /\ service.made
  /\ LET p == ListPlace(service.lines, position)
     IN service' =
          IF p = 0 THEN ServiceRaised("hydrate_session", "IndexError")
          ELSE [service EXCEPT
                  !.ctrl = [session_id |-> service.lines[p].line_id,
                            raw_text |->
                              IF fields # <<>> THEN fields
                              ELSE IF HasData(service.lines[p].raw_text)
                              THEN service.lines[p].raw_text
                              ELSE NewController.raw_text],
                  !.last = DocumentServiceCall("hydrate_session", NoError, "", "")]
  /\ UNCHANGED <<line_nets, net_lines, doc, last, before, build, nqs, bus,
                 parse, db, document, session, cache, pure, ctor>>

\* commit_edit(doc_id, position)
commit_edit(position) ==
  /\ service.made
  /\ service.ops < MaxServiceOps
  /\ LET p == ListPlace(service.lines, position)
     IN service' =
          IF p = 0 THEN ServiceRaised("commit_edit", "IndexError")
          ELSE LET line_id == service.lines[p].line_id
                   r == DocumentReplace(
                          p, DocumentLine(line_id, service.ctrl.raw_text))
               IN IF r.raw.raised # NoError
                  THEN [r.doc EXCEPT
                          !.last = DocumentServiceCall("commit_edit", r.raw.raised,
                                               "", "")]
                  ELSE [r.doc EXCEPT
                          !.detector = ServiceUpdateLine(
                                         @, line_id, service.ctrl.raw_text),
                          !.last = DocumentServiceCall("commit_edit", NoError,
                                               line_id,
                                               service.ctrl.session_id)]
  /\ UNCHANGED <<line_nets, net_lines, doc, last, before, build, nqs, bus,
                 parse, db, document, session, cache, pure, ctor>>

\* delete_line(doc_id, position): the detector first, then the document
delete_line(position) ==
  /\ service.made
  /\ service.ops < MaxServiceOps
  /\ LET p == ListPlace(service.lines, position)
     IN service' =
          IF p = 0 THEN ServiceRaised("delete_line", "IndexError")
          ELSE LET line_id == service.lines[p].line_id
                   raw == raw_remove_line(service, line_id)
                   pos == IF line_id \in DOMAIN service.index
                          THEN service.index[line_id] ELSE 0
                   removed ==
                     IF ListPlace(service.lines, pos) = 0 THEN NoServiceLine
                     ELSE service.lines[ListPlace(service.lines, pos)]
               IN [ServiceMutated(raw,
                     Command("remove", pos, removed, NoServiceLine,
                             NoServiceLine, 0, 0, <<>>, <<>>))
                   EXCEPT !.detector = ServiceRemoveLine(@, line_id),
                          !.last = DocumentServiceCall("delete_line", raw.raised,
                                               "", "")]
  /\ UNCHANGED <<line_nets, net_lines, doc, last, before, build, nqs, bus,
                 parse, db, document, session, cache, pure, ctor>>

\* insert_blank_line(doc_id, position): a line with a new uuid and no text
insert_blank_line(position) ==
  /\ service.made
  /\ service.ops < MaxServiceOps
  /\ service.uuids < Len(ServiceIds)
  /\ Len(service.lines) < MaxDocLines
  /\ LET new_line == DocumentLine(ServiceIds[service.uuids + 1], <<>>)
         raw == raw_insert_line(service, position, new_line)
     IN service' =
          [ServiceMutated(raw,
             Command("insert", position, new_line, NoServiceLine,
                     NoServiceLine, 0, 0, <<>>, <<>>))
           EXCEPT !.uuids = @ + 1,
                  !.last = DocumentServiceCall("insert_blank_line", raw.raised,
                                       "", "")]
  /\ UNCHANGED <<line_nets, net_lines, doc, last, before, build, nqs, bus,
                 parse, db, document, session, cache, pure, ctor>>

\* swap_lines(doc_id, pos_a, pos_b): the detector is left alone
service_swap_lines(pos_a, pos_b) ==
  /\ service.made
  /\ service.ops < MaxServiceOps
  /\ LET raw == IF pos_a = pos_b
                THEN Raw(service.lines, service.index, "ValueError")
                ELSE raw_swap_lines(service, pos_a, pos_b)
     IN service' =
          [ServiceMutated(raw,
             Command("swap", 0, NoServiceLine, NoServiceLine, NoServiceLine,
                     pos_a, pos_b, <<>>, <<>>))
           EXCEPT !.last = DocumentServiceCall("swap_lines", raw.raised, "", "")]
  /\ UNCHANGED <<line_nets, net_lines, doc, last, before, build, nqs, bus,
                 parse, db, document, session, cache, pure, ctor>>

\* the text toggle_comment gives the line: a comment loses its "#", any
\* other line gets one
Toggled(raw_text) ==
  IF is_comment(raw_text) THEN Tail(raw_text) ELSE <<"#">> \o raw_text

\* toggle_comment(doc_id, position)
toggle_comment(position) ==
  /\ service.made
  /\ service.ops < MaxServiceOps
  /\ LET p == ListPlace(service.lines, position)
     IN service' =
          IF p = 0 THEN ServiceRaised("toggle_comment", "IndexError")
          ELSE LET old_line == service.lines[p]
                   new_line == DocumentLine(old_line.line_id,
                                            Toggled(old_line.raw_text))
                   r == DocumentReplace(p, new_line)
               IN IF r.raw.raised # NoError
                  THEN [r.doc EXCEPT
                          !.last = DocumentServiceCall("toggle_comment",
                                               r.raw.raised, "", "")]
                  ELSE [r.doc EXCEPT
                          !.detector = ServiceUpdateLine(
                                         @, new_line.line_id,
                                         new_line.raw_text),
                          !.last = DocumentServiceCall("toggle_comment", NoError,
                                               "", "")]
  /\ UNCHANGED <<line_nets, net_lines, doc, last, before, build, nqs, bus,
                 parse, db, document, session, cache, pure, ctor>>

\* edit_comment_text(doc_id, position, new_text): the text stays a comment
\* and the detector is left alone
edit_comment_text(position, new_text) ==
  /\ service.made
  /\ service.ops < MaxServiceOps
  /\ LET p == ListPlace(service.lines, position)
     IN service' =
          IF p = 0 THEN ServiceRaised("edit_comment_text", "IndexError")
          ELSE IF ~is_comment(service.lines[p].raw_text)
          THEN ServiceRaised("edit_comment_text", "ValueError")
          ELSE LET raw_text == IF is_comment(new_text) THEN new_text
                               ELSE <<"#">> \o new_text
                   r == DocumentReplace(
                          p, DocumentLine(service.lines[p].line_id, raw_text))
               IN [r.doc EXCEPT
                     !.last = DocumentServiceCall("edit_comment_text", r.raw.raised,
                                          "", "")]
  /\ UNCHANGED <<line_nets, net_lines, doc, last, before, build, nqs, bus,
                 parse, db, document, session, cache, pure, ctor>>

\* _sync_conflicts_from_record for the record of cmd.undo or cmd.redo: a
\* remove record removes the line, an insert or replace record updates it
\* with the data of its new_line
SyncConflicts(detector, kind, line) ==
  CASE kind = "swap" -> detector
    [] kind = "remove" -> ServiceRemoveLine(detector, line.line_id)
    [] OTHER -> ServiceUpdateLine(detector, line.line_id, line.raw_text)

\* undo(doc_id): ValueError when there is nothing to undo
service_undo ==
  /\ service.made
  /\ service' =
       IF service.undo_stack = <<>>
       THEN ServiceRaised("undo", "ValueError")
       ELSE LET cmd == service.undo_stack[Len(service.undo_stack)]
                rest == SubSeq(service.undo_stack, 1,
                               Len(service.undo_stack) - 1)
                raw == CommandUndo(cmd, service)
            IN [service EXCEPT
                  !.lines = raw.lines, !.index = raw.index,
                  !.undo_stack = rest,
                  !.redo_stack = IF raw.raised = NoError
                                 THEN Append(@, cmd) ELSE @,
                  !.detector =
                    IF raw.raised # NoError THEN @
                    ELSE CASE cmd.kind = "insert" ->
                                SyncConflicts(@, "remove", cmd.line)
                           [] cmd.kind = "remove" ->
                                SyncConflicts(@, "insert", cmd.line)
                           [] cmd.kind = "replace" ->
                                SyncConflicts(@, "replace", cmd.old_line)
                           [] OTHER -> SyncConflicts(@, "swap", cmd.line),
                  !.last = DocumentServiceCall("undo", raw.raised, "", "")]
  /\ UNCHANGED <<line_nets, net_lines, doc, last, before, build, nqs, bus,
                 parse, db, document, session, cache, pure, ctor>>

\* redo(doc_id): ValueError when there is nothing to redo
service_redo ==
  /\ service.made
  /\ service' =
       IF service.redo_stack = <<>>
       THEN ServiceRaised("redo", "ValueError")
       ELSE LET cmd == service.redo_stack[Len(service.redo_stack)]
                rest == SubSeq(service.redo_stack, 1,
                               Len(service.redo_stack) - 1)
                raw == CommandRedo(cmd, service)
            IN [service EXCEPT
                  !.lines = raw.lines, !.index = raw.index,
                  !.redo_stack = rest,
                  !.undo_stack = IF raw.raised = NoError
                                 THEN Append(@, cmd) ELSE @,
                  !.detector =
                    IF raw.raised # NoError THEN @
                    ELSE CASE cmd.kind = "insert" ->
                                SyncConflicts(@, "insert", cmd.line)
                           [] cmd.kind = "remove" ->
                                SyncConflicts(@, "remove", cmd.line)
                           [] cmd.kind = "replace" ->
                                SyncConflicts(@, "replace", cmd.new_line)
                           [] OTHER -> SyncConflicts(@, "swap", cmd.line),
                  !.last = DocumentServiceCall("redo", raw.raised, "", "")]
  /\ UNCHANGED <<line_nets, net_lines, doc, last, before, build, nqs, bus,
                 parse, db, document, session, cache, pure, ctor>>

NextService ==
  \/ \E position \in Positions, fields \in DataTexts \cup {<<>>} :
       hydrate_session(position, fields)
  \/ \E position \in Positions : commit_edit(position)
  \/ \E position \in Positions : delete_line(position)
  \/ \E position \in Positions : insert_blank_line(position)
  \/ \E pos_a \in Positions, pos_b \in Positions :
       service_swap_lines(pos_a, pos_b)
  \/ \E position \in Positions : toggle_comment(position)
  \/ \E position \in Positions, new_text \in {<<"n1">>, <<"#", "n12">>} :
       edit_comment_text(position, new_text)
  \/ service_undo
  \/ service_redo

SpecService == InitService /\ [][NextService]_vars

(***************************************************************************)
(* Properties of the DocumentService, checked under SpecService.           *)
(***************************************************************************)

\* C38: after any sequence of DocumentService operations on a loaded
\* document (commit_edit, delete_line, insert_blank_line, swap_lines,
\* toggle_comment, edit_comment_text, undo, redo), the index of the conflict
\* detector is the index that rebuild(doc.lines) produces for the current
\* lines of the document: every line with data is indexed with the nets of
\* its data and no removed line is indexed.
C38_DetectorIsRebuild ==
  service.made => service.detector = ServiceRebuild(service.lines)

\* a delete_line has returned and left the detector with another index than
\* the rebuild of the lines
C38_Witness ==
  /\ service.made
  /\ service.last.op = "delete_line"
  /\ service.last.raised = NoError
  /\ service.detector # ServiceRebuild(service.lines)

\* C39: commit_edit(doc, position) replaces a line only with the data of an
\* edit session that was started for that line: when it replaces, the
\* session id of the controller is the line id of the line at the position.
C39_CommitOwnSession ==
  (service.made /\ service.last.op = "commit_edit"
     /\ service.last.raised = NoError)
    => service.last.session_id = service.last.line_id

\* a commit_edit has replaced a line with the data of a session that was
\* started for another line of the document
C39_Witness ==
  /\ service.made
  /\ service.last.op = "commit_edit"
  /\ service.last.raised = NoError
  /\ service.last.session_id # ""
  /\ service.last.session_id # service.last.line_id
  /\ \E i \in DOMAIN service.lines :
       service.lines[i].line_id = service.last.session_id

(***************************************************************************)
(* The two query services built on one file: NetlistQueryService over the  *)
(* Netlist of NetlistBuilder, and SpiceNetlistQueryService over            *)
(* parse_spice_file and _build_template_data.  The files are               *)
(*     .subckt blk p q  [one device line]  .ends                           *)
(*     .subckt top a b  [Xi1 <two nets> blk]  [one device line]  .ends     *)
(* with top as the top cell.  A name is the sequence of its characters, a  *)
(* device line the list of its fields after the device name.               *)
(***************************************************************************)

\* the device lines of blk: no line, `M1 p q p q nmos`, `M1 p q g p nmos`
\* and `M1 p g q nmos`
BlkDeviceLines ==
  {<<>>,
   <<(<<"p">>), (<<"q">>), (<<"p">>), (<<"q">>), (<<"n", "m", "o", "s">>)>>,
   <<(<<"p">>), (<<"q">>), (<<"g">>), (<<"p">>), (<<"n", "m", "o", "s">>)>>,
   <<(<<"p">>), (<<"g">>), (<<"q">>), (<<"n", "m", "o", "s">>)>>}

\* the device lines of top: no line, `M1 a B a b nmos`, `M1 a w w g nmos`
\* and `M1 a b w nmos`
TopDeviceLines ==
  {<<>>,
   <<(<<"a">>), (<<"B">>), (<<"a">>), (<<"b">>), (<<"n", "m", "o", "s">>)>>,
   <<(<<"a">>), (<<"w">>), (<<"w">>), (<<"g">>), (<<"n", "m", "o", "s">>)>>,
   <<(<<"a">>), (<<"b">>), (<<"w">>), (<<"n", "m", "o", "s">>)>>}

\* the nets of the instance line of top: no line, or two nets of a, b, w
InstanceNets ==
  {<<>>} \cup [1 .. 2 -> {<<"a">>, <<"b">>, <<"w">>}]

\* the files
AgreeFiles ==
  [blk_device : BlkDeviceLines, nets : InstanceNets,
   top_device : TopDeviceLines]

\* the first n fields of a device line, lower-cased, as a set
DeviceFields(line, n) ==
  {LowerNet(line[i]) : i \in {j \in DOMAIN line : j <= n}}

\* NetlistBuilder: `device_net_names = device_line_list[1:4]`, each of them
\* added to the template by get_or_add_net under its lower-cased name
BuilderDeviceNets(line) == DeviceFields(line, 3)

\* parse_spice_file: `nets = [t.lower() for t in tokens[1:5]]`, each of them
\* added to local_nets
SpiceMosNets(line) == DeviceFields(line, 4)

\* the name of the instance line, as both parsers keep it
AgreeInstanceName == <<"i", "1">>

\* the Netlist that read_spice_file returns for a file: per template its
\* interface nets in port order, the names of its nets and its sub instances
BuilderNetlist(file) ==
  [blk |-> [interface_nets |-> <<(<<"p">>), (<<"q">>)>>,
            nets |-> {<<"p">>, <<"q">>} \cup BuilderDeviceNets(file.blk_device),
            sub_instances |-> {}],
   top |-> [interface_nets |-> <<(<<"a">>), (<<"b">>)>>,
            nets |-> {<<"a">>, <<"b">>} \cup Elems(file.nets)
                       \cup BuilderDeviceNets(file.top_device),
            sub_instances |->
              IF file.nets = <<>> THEN {}
              ELSE {[name |-> AgreeInstanceName, template |-> "blk",
                     connected |-> file.nets]}]]

\* the dict that parse_spice_file returns for a file
SpiceSubckts(file) ==
  [blk |-> SubcktDef(<<(<<"p">>), (<<"q">>)>>, <<>>,
                     SpiceMosNets(file.blk_device)),
   top |-> SubcktDef(<<(<<"a">>), (<<"b">>)>>,
                     IF file.nets = <<>> THEN <<>>
                     ELSE <<SubcktInstance(AgreeInstanceName, file.nets,
                                           "blk")>>,
                     SpiceMosNets(file.top_device))]

AgreeTemplates == {"blk", "top"}

RECURSIVE SplitPath(_)
\* net_name.split('/')
SplitPath(name) ==
  IF \A i \in DOMAIN name : name[i] # "/" THEN <<name>>
  ELSE LET at == CHOOSE i \in DOMAIN name :
                   /\ name[i] = "/"
                   /\ \A j \in 1 .. i - 1 : name[j] # "/"
       IN <<SubSeq(name, 1, at - 1)>>
            \o SplitPath(SubSeq(name, at + 1, Len(name)))

RECURSIVE JoinPath(_)
\* '/'.join(parts)
JoinPath(parts) ==
  IF Len(parts) = 1 THEN parts[1]
  ELSE parts[1] \o <<"/">> \o JoinPath(Tail(parts))

\* NetlistNet.is_interface for the net n of template t of netlist nl
NetIsInterface(nl, t, n) == n \in Elems(nl[t].interface_nets)

\* the sub instance of template t by name; the set is empty when there is
\* none
SubInstances(nl, t, name) == {i \in nl[t].sub_instances : i.name = name}

RECURSIVE NetWithPath(_, _, _, _)
\* get_net_with_path over the parts of the net name
NetWithPath(nl, t, parts, current_path) ==
  IF Len(parts) = 1
  THEN IF parts[1] \in nl[t].nets
       THEN [found |-> TRUE, template |-> t, net |-> parts[1],
             path |-> current_path]
       ELSE NotFound
  ELSE IF SubInstances(nl, t, parts[1]) = {} THEN NotFound
  ELSE LET sub == CHOOSE i \in SubInstances(nl, t, parts[1]) : TRUE
       IN NetWithPath(nl, sub.template, Tail(parts),
                      Append(current_path, sub.name))

RECURSIVE InstanceByPath(_, _, _)
\* get_instance_by_path: the deepest instance, with its parent template
InstanceByPath(nl, root, instance_path) ==
  LET inst == CHOOSE i \in SubInstances(nl, root, instance_path[1]) : TRUE
  IN IF Len(instance_path) = 1 THEN [instance |-> inst, parent |-> root]
     ELSE InstanceByPath(nl, inst.template, Tail(instance_path))

RECURSIVE TraceToTop(_, _, _, _, _)
\* trace_interface_to_top
TraceToTop(nl, root, t, current_net, path_from_root) ==
  IF path_from_root = <<>> THEN <<current_net>>
  ELSE IF NetIsInterface(nl, t, current_net)
  THEN LET at == InstanceByPath(nl, root, path_from_root)
           ports == nl[at.instance.template].interface_nets
           connected_net ==
             at.instance.connected[CHOOSE i \in DOMAIN ports :
                                     ports[i] = current_net]
       IN TraceToTop(nl, root, at.parent, connected_net,
                     SubSeq(path_from_root, 1, Len(path_from_root) - 1))
  ELSE Append(path_from_root, current_net)

\* Netlist.get_canonical_net_name, then NetlistQueryService.
\* _resolve_canonical_net_name: the canonical name, or None
BuilderCanonical(nl, t, net_name) ==
  IF net_name = NoName THEN NoName
  ELSE LET r == NetWithPath(nl, t, SplitPath(LowerNet(net_name)), <<>>)
       IN IF ~r.found THEN NoName
          ELSE IF NetIsInterface(nl, r.template, r.net)
          THEN IF r.path # <<>>
               THEN JoinPath(TraceToTop(nl, t, r.template, r.net, r.path))
               ELSE r.net
          ELSE JoinPath(Append(r.path, r.net))

RECURSIVE NetFindStepOf(_, _, _)
\* net_find_step of Netlist.get_all_nets: the names of the nets that are no
\* interface nets, of the template and of its sub instances
NetFindStepOf(nl, current_instance_name, t) ==
  {current_instance_name \o n :
     n \in {x \in nl[t].nets : ~NetIsInterface(nl, t, x)}}
  \cup
  UNION {NetFindStepOf(nl, current_instance_name \o inst.name \o <<"/">>,
                       inst.template) :
           inst \in nl[t].sub_instances}

\* _build_canonical_net_map for one template, over Netlist.get_all_nets
BuilderAllNets(nl, t) ==
  {BuilderCanonical(nl, t, n) :
     n \in Elems(nl[t].interface_nets) \cup NetFindStepOf(nl, <<>>, t)}
    \ {NoName}

\* SpiceNetlistQueryService._resolve_canonical_net_name over the data of
\* _build_template_data
SpiceCanonical(data, net_name) ==
  IF net_name = NoName THEN NoName
  ELSE IF LowerNet(net_name) \in DOMAIN data.map
  THEN data.map[LowerNet(net_name)]
  ELSE IF LowerNet(net_name) \in data.canonical_nets THEN LowerNet(net_name)
  ELSE NoName

\* the names the services are asked for: the names of the nets of the
\* files, and the same names under the instance
AgreeLocalNames ==
  {<<"a">>, <<"b">>, <<"w">>, <<"g">>, <<"p">>, <<"q">>,
   <<"n", "m", "o", "s">>}

AgreePaths ==
  AgreeLocalNames
    \cup {HierPath(AgreeInstanceName, n) : n \in AgreeLocalNames}

\* what a service reports: get_all_nets_in_template for every template and
\* get_canonical_net_name for every path and template
Reported(nets, canonical) == [nets |-> nets, canonical |-> canonical]

\* the NetlistQueryService of a file
BuilderService(file) ==
  LET nl == BuilderNetlist(file)
  IN Reported([t \in AgreeTemplates |-> BuilderAllNets(nl, t)],
              [t \in AgreeTemplates |->
                 [path \in AgreePaths |-> BuilderCanonical(nl, t, path)]])

\* the SpiceNetlistQueryService of a file
SpiceService(file) ==
  LET subckts == SpiceSubckts(file)
      data == [t \in AgreeTemplates |-> BuildTemplateData(subckts, t)]
  IN Reported([t \in AgreeTemplates |-> data[t].canonical_nets],
              [t \in AgreeTemplates |->
                 [path \in AgreePaths |-> SpiceCanonical(data[t], path)]])

\* no service has been constructed on the file
AgreeStart(file) ==
  [op |-> "agree", file |-> file, builder |-> <<>>, spice |-> <<>>]

InitAgree ==
  /\ StoreInit
  /\ build = NoBuild
  /\ nqs = NoService
  /\ bus = NoBus
  /\ parse = NoParse
  /\ db = NoDb
  /\ document = NoDocument
  /\ session = NoSession
  /\ cache = NoCache
  /\ pure \in {AgreeStart(file) : file \in AgreeFiles}
  /\ ctor = NoCtor
  /\ service = NoDocumentService

\* NetlistQueryService(cell, spice_file, NetlistBuilder) is constructed
ConstructBuilderService ==
  /\ pure.op = "agree"
  /\ pure.builder = <<>>
  /\ pure' = [pure EXCEPT !.builder = <<BuilderService(pure.file)>>]
  /\ UNCHANGED <<line_nets, net_lines, doc, last, before, build, nqs, bus,
                 parse, db, document, session, cache, ctor, service>>

\* SpiceNetlistQueryService(cell, spice_file) is constructed
ConstructSpiceService ==
  /\ pure.op = "agree"
  /\ pure.spice = <<>>
  /\ pure' = [pure EXCEPT !.spice = <<SpiceService(pure.file)>>]
  /\ UNCHANGED <<line_nets, net_lines, doc, last, before, build, nqs, bus,
                 parse, db, document, session, cache, ctor, service>>

NextAgree ==
  \/ ConstructBuilderService
  \/ ConstructSpiceService

SpecAgree == InitAgree /\ [][NextAgree]_vars

(***************************************************************************)
(* Properties of the two services, checked under SpecAgree.                *)
(***************************************************************************)

\* both services have been constructed on the file
BothConstructed ==
  pure.op = "agree" /\ pure.builder # <<>> /\ pure.spice # <<>>

\* C40: for every input file that both parsers accept, the two query
\* services agree: for every template they report the same set of
\* canonical nets and, for every hierarchical path, the same canonical net
\* name.
C40_ServicesAgree ==
  BothConstructed =>
    /\ pure.builder[1].nets = pure.spice[1].nets
    /\ pure.builder[1].canonical = pure.spice[1].canonical

\* both services have been constructed on a file with a device line in top,
\* and they report different nets for top
C40_Witness ==
  /\ BothConstructed
  /\ pure.file.top_device # <<>>
  /\ pure.builder[1].nets["top"] # pure.spice[1].nets["top"]

====
